---------------------------- MODULE Spec2Model ----------------------------
(***************************************************************************)
(* Model of the ardour-mcp control plane: the session state cache          *)
(* (ardour_state.py), the OSC bridge as the tools see it (osc_bridge.py)   *)
(* and the write/read operations of the tool classes (tools/*.py).         *)
(*                                                                         *)
(* Floats are scaled integers: gain in 1/1000 dB, pan in 1/1000, tempo in  *)
(* 1/1000 BPM.  NaN is a distinguished value that fails every comparison.  *)
(* Python object identity is modelled by references into a heap (objs).    *)
(***************************************************************************)
EXTENDS Integers, Sequences, FiniteSets, TLC

(***************************************************************************)
(* Bounds of the model.                                                    *)
(***************************************************************************)
MaxStrip == 2
MaxObjs == 5

StripIds == 1..MaxStrip
TrackRefs == 1..MaxObjs

(***************************************************************************)
(* Values.                                                                 *)
(***************************************************************************)
NoRef == 0
NaN == 999999999
NoObj == [free |-> TRUE]
NoCall == [op |-> "none", args |-> <<>>, conn |-> FALSE, success |-> FALSE,
           error |-> "", sent |-> <<>>, fb |-> <<>>]
NoHeld == [taken |-> FALSE]
CacheDictId == 0
NoOwner == 0

\* a <= b on floats: every comparison with NaN is false
LeF(a, b) == a # NaN /\ b # NaN /\ a <= b
LtF(a, b) == a # NaN /\ b # NaN /\ a < b

DefaultTempo == 120000
DefaultSampleRate == 48000

VARIABLES
    connected,   \* what the bridge's is_connected() returns
    lock,        \* ArdourState._lock: identity, owner thread, recursion count
    objs,        \* heap of TrackState objects, by reference
    tracks,      \* _state.tracks: strip_id -> reference (NoRef if absent)
    markers,     \* _state.markers: sequence of <<name, frame>>
    transport,   \* _state.transport
    session,     \* _state.name, path, sample_rate, dirty
    held,        \* the value a caller got from get_all_tracks()
    lastCall,    \* history: the last operation called and what it returned
    lastFb,      \* history: last /strip/mute value processed per strip since clear
    thr,         \* the concurrent callers of update_track: position and locals
    prior,       \* history: the track records when the concurrent callers started
    journal,     \* history: the latest marker commands the bridge accepted
    srv,         \* the bridge's handler table, the steps of the server's last
                 \* start() and whether the MCP tools are registered
    meter_cache  \* MeteringTools._meter_cache: strip_id -> meter data

cache == <<objs, tracks, markers, transport, session>>
vars == <<connected, lock, objs, tracks, markers, transport, session, held,
          lastCall, lastFb, thr, prior, journal, srv, meter_cache>>

(***************************************************************************)
(* Dataclasses of ardour_state.py.                                         *)
(***************************************************************************)
TransportState ==
    [playing |-> FALSE, recording |-> FALSE, frame |-> 0,
     tempo |-> DefaultTempo, time_signature |-> <<4, 4>>,
     loop_enabled |-> FALSE]

TrackFields ==
    {"strip_id", "name", "track_type", "muted", "soloed", "rec_enabled",
     "gain_db", "pan", "hidden"}

TrackState_muted(strip_id) ==
    [strip_id |-> strip_id, name |-> "", track_type |-> "audio",
     muted |-> TRUE, soloed |-> FALSE, rec_enabled |-> FALSE,
     gain_db |-> 0, pan |-> 0, hidden |-> FALSE]

TrackState(strip_id) ==
    [strip_id |-> strip_id, name |-> "", track_type |-> "audio",
     muted |-> FALSE, soloed |-> FALSE, rec_enabled |-> FALSE,
     gain_db |-> 0, pan |-> 0, hidden |-> FALSE]

SessionFields == [name |-> "", path |-> "", sample_rate |-> DefaultSampleRate,
                  dirty |-> FALSE]

NewLock == [id |-> 1, owner |-> NoOwner, count |-> 0]

(***************************************************************************)
(* The heap.                                                               *)
(***************************************************************************)
HeldRefs(h) == IF h.taken THEN {h.map[k] : k \in DOMAIN h.map} \ {NoRef} ELSE {}
LiveRefs(t, h, extra) == ({t[k] : k \in DOMAIN t} \ {NoRef}) \cup HeldRefs(h) \cup extra

\* objects nobody references any more are collected
Collect(o, t, h, extra) ==
    [r \in TrackRefs |-> IF r \in LiveRefs(t, h, extra) THEN o[r] ELSE NoObj]

FreeRefs == {r \in TrackRefs : objs[r] = NoObj}
HasFree == FreeRefs # {}
Fresh == CHOOSE r \in FreeRefs : \A q \in FreeRefs : r <= q

\* what the cache shows to a reader: strip_id -> the record's fields
Shown(o, t) == [k \in StripIds |-> IF t[k] = NoRef THEN NoObj ELSE o[t[k]]]
View == Shown(objs, tracks)

(***************************************************************************)
(* ArdourState (ardour_state.py).  Each method runs with the lock held;    *)
(* sequential callers acquire and release it within the call.              *)
(***************************************************************************)
get_track(strip_id) ==
    IF strip_id \in StripIds THEN tracks[strip_id] ELSE NoRef

has_track(strip_id) == get_track(strip_id) # NoRef

track_of(strip_id) == objs[get_track(strip_id)]

\* a read of the transport that returns the defaults instead of the cache
get_transport_default == TransportState

get_transport == transport

setattr_track_reset(rec, key, value) ==
    IF key \in TrackFields THEN [TrackState(rec.strip_id) EXCEPT ![key] = value] ELSE rec

\* hasattr(track, key) and then setattr(track, key, value)
setattr_track(rec, key, value) ==
    IF key \in TrackFields THEN [rec EXCEPT ![key] = value] ELSE rec

\* an update that sets its fields on a record rebuilt from the defaults
RECURSIVE ApplyKwargs_fresh(_, _)
ApplyKwargs_fresh(rec, kw) ==
    IF Len(kw) = 0 THEN rec
    ELSE ApplyKwargs_fresh(setattr_track(TrackState(rec.strip_id), Head(kw)[1], Head(kw)[2]),
                           Tail(kw))

\* for key, value in kwargs.items(): kwargs is a sequence of <<key, value>>
RECURSIVE ApplyKwargs(_, _)
ApplyKwargs(rec, kw) ==
    IF Len(kw) = 0 THEN rec
    ELSE ApplyKwargs(setattr_track(rec, Head(kw)[1], Head(kw)[2]), Tail(kw))

\* update_track cannot run when the bounded heap has no room for a new record
CanUpdate(strip_id) == has_track(strip_id) \/ HasFree

track_entry_reset(strip_id) ==
    LET ref == IF has_track(strip_id) THEN tracks[strip_id] ELSE Fresh
    IN  [objs   |-> [objs EXCEPT ![ref] = TrackState(strip_id)],
         tracks |-> [tracks EXCEPT ![strip_id] = ref]]

\* if strip_id not in self._state.tracks: self._state.tracks[strip_id] = TrackState(...)
track_entry(strip_id) ==
    IF has_track(strip_id)
    THEN [objs |-> objs, tracks |-> tracks]
    ELSE [objs   |-> [objs EXCEPT ![Fresh] = TrackState(strip_id)],
          tracks |-> [tracks EXCEPT ![strip_id] = Fresh]]

update_track_create_only(strip_id, kw) == track_entry(strip_id)

update_track(strip_id, kw) ==
    LET e   == track_entry(strip_id)
        ref == e.tracks[strip_id]
    IN  [objs   |-> [e.objs EXCEPT ![ref] = ApplyKwargs(e.objs[ref], kw)],
         tracks |-> e.tracks]

update_transport(kw) ==
    [f \in DOMAIN transport |->
        IF f \in {"playing", "recording", "frame", "tempo"} /\ f \in DOMAIN kw
        THEN kw[f] ELSE transport[f]]

get_all_tracks_live == [taken |-> TRUE, id |-> CacheDictId, map |-> tracks]

\* dict(self._state.tracks): a new mapping object holding the same records
get_all_tracks == [taken |-> TRUE, id |-> CacheDictId + 1, map |-> tracks]

clear_tracks_only ==
    [lock |-> lock, tracks |-> [k \in StripIds |-> NoRef], markers |-> markers,
     transport |-> transport, session |-> session]

\* self._state = SessionState(): every field fresh, self._lock untouched
clear ==
    [lock |-> lock, tracks |-> [k \in StripIds |-> NoRef], markers |-> <<>>,
     transport |-> TransportState, session |-> SessionFields]


(***************************************************************************)
(* Feedback handlers of ArdourState (_on_strip_mute and the others): each  *)
(* drops a message with too few arguments and otherwise updates one field  *)
(* under the lock.                                                         *)
(***************************************************************************)
CacheNow ==
    [objs |-> objs, tracks |-> tracks, markers |-> markers,
     transport |-> transport, session |-> session]

StripField(address) ==
    CASE address = "/strip/name" -> "name"
      [] address = "/strip/gain" -> "gain_db"
      [] address = "/strip/pan_stereo_position" -> "pan"
      [] address = "/strip/mute" -> "muted"
      [] address = "/strip/solo" -> "soloed"
      [] address = "/strip/recenable" -> "rec_enabled"
      [] OTHER -> "none"

\* bool(args[1]) for the flags, the value itself for name, gain and pan
StripValue(address, v) ==
    IF address \in {"/strip/mute", "/strip/solo", "/strip/recenable"}
    THEN v # 0 ELSE v

\* a strip handler that takes the strip id before testing the length
on_feedback_partial(address, args) ==
    IF StripField(address) # "none" /\ Len(args) >= 1
    THEN LET u == update_track(args[1],
                    IF Len(args) >= 2
                    THEN << <<StripField(address), StripValue(address, args[2])>> >>
                    ELSE <<>>)
         IN  [CacheNow EXCEPT !.objs = u.objs, !.tracks = u.tracks]
    ELSE CacheNow

on_feedback(address, args) ==
    LET c == CacheNow IN
    CASE StripField(address) # "none" ->
            IF Len(args) >= 2
            THEN LET u == update_track(args[1],
                            << <<StripField(address), StripValue(address, args[2])>> >>)
                 IN  [c EXCEPT !.objs = u.objs, !.tracks = u.tracks]
            ELSE c
      [] address = "/transport_frame" ->
            IF Len(args) >= 1
            THEN [c EXCEPT !.transport = update_transport([frame |-> args[1]])]
            ELSE c
      [] address = "/transport_speed" ->
            IF Len(args) >= 1
            THEN [c EXCEPT !.transport = update_transport([playing |-> args[1] # 0])]
            ELSE c
      [] address = "/record_enabled" ->
            IF Len(args) >= 1
            THEN [c EXCEPT !.transport = update_transport([recording |-> args[1] # 0])]
            ELSE c
      [] address = "/tempo" ->
            IF Len(args) >= 1
            THEN [c EXCEPT !.transport = update_transport([tempo |-> args[1]])]
            ELSE c
      [] address = "/time_signature" ->
            IF Len(args) >= 2
            THEN [c EXCEPT !.transport.time_signature = <<args[1], args[2]>>]
            ELSE c
      [] address = "/loop_toggle" ->
            IF Len(args) >= 1
            THEN [c EXCEPT !.transport.loop_enabled = args[1] # 0]
            ELSE c
      [] address = "/session_name" ->
            IF Len(args) >= 1 THEN [c EXCEPT !.session.name = args[1]] ELSE c
      [] address = "/sample_rate" ->
            IF Len(args) >= 1 THEN [c EXCEPT !.session.sample_rate = args[1]] ELSE c
      [] address = "/dirty" ->
            IF Len(args) >= 1 THEN [c EXCEPT !.session.dirty = args[1] # 0] ELSE c
      [] OTHER -> c

\* a strip message can be processed when the bounded heap has room for its record
FeedbackFits(m) ==
    StripField(m.address) # "none" /\ Len(m.args) >= 2 => CanUpdate(m.args[1])

(***************************************************************************)
(* Steps of the model: the cache after an operation, the caller's mapping, *)
(* and the record of the call.                                             *)
(***************************************************************************)
\* a held mapping that is the cache's own dict object shows the cache's entries
Aliased(h) == h.taken /\ h.id = CacheDictId
Sync(h, t) == IF Aliased(h) THEN [h EXCEPT !.map = t] ELSE h

\* Records are named in the order in which the cache's mapping and then the
\* caller's mapping reach them: a record has no identity beyond "is".
Roots(t, h) ==
    [i \in 1..(2 * MaxStrip) |->
        IF i <= MaxStrip THEN t[i]
        ELSE IF h.taken THEN h.map[i - MaxStrip] ELSE NoRef]

Rank(rt, r) ==
    LET first == CHOOSE i \in DOMAIN rt : rt[i] = r /\ \A j \in 1..(i - 1) : rt[j] # r
    IN  Cardinality({rt[j] : j \in 1..first} \ {NoRef})

Renamed(rt, r) == IF r = NoRef THEN NoRef ELSE Rank(rt, r)

Normal(o, t, h) ==
    LET rt   == Roots(t, h)
        live == LiveRefs(t, h, {})
        kept == Collect(o, t, h, {})
    IN  [objs   |-> [r \in TrackRefs |->
                        IF \E q \in live : Rank(rt, q) = r
                        THEN kept[CHOOSE q \in live : Rank(rt, q) = r]
                        ELSE NoObj],
         tracks |-> [k \in StripIds |-> Renamed(rt, t[k])],
         held   |-> IF h.taken
                    THEN [h EXCEPT !.map = [k \in StripIds |-> Renamed(rt, h.map[k])]]
                    ELSE h]

SetCache(c, h) ==
    /\ held' = Normal(c.objs, c.tracks, Sync(h, c.tracks)).held
    /\ tracks' = Normal(c.objs, c.tracks, Sync(h, c.tracks)).tracks
    /\ objs' = Normal(c.objs, c.tracks, Sync(h, c.tracks)).objs
    /\ markers' = c.markers
    /\ transport' = c.transport
    /\ session' = c.session

Called(op, args) == [NoCall EXCEPT !.op = op, !.args = args, !.conn = connected]

NextFb(m) ==
    IF m.address = "/strip/mute" /\ Len(m.args) >= 2
    THEN [lastFb EXCEPT ![m.args[1]] = m.args[2]]
    ELSE lastFb

NoFb == [k \in StripIds |-> -1]

\* self._meter_cache = {}: no entry for any strip; an entry is a dict that
\* may or may not hold the key "correlation"
NoMeter == [present |-> FALSE, has_correlation |-> FALSE, correlation |-> 0]

\* the bridge after construction: no handler registered for any address
Addresses == {"/strip/mute", "/tempo"}
NoSrv == [handlers |-> [a \in Addresses |-> <<>>],
          regs     |-> [a \in Addresses |-> <<>>],
          invoked  |-> <<>>,
          steps    |-> <<>>,
          tools    |-> FALSE]

Init ==
    /\ connected = FALSE
    /\ lock = NewLock
    /\ objs = [r \in TrackRefs |-> NoObj]
    /\ tracks = [k \in StripIds |-> NoRef]
    /\ markers = <<>>
    /\ transport = TransportState
    /\ session = SessionFields
    /\ held = NoHeld
    /\ lastCall = NoCall
    /\ lastFb = NoFb
    /\ thr = <<>>
    /\ prior = <<>>
    /\ journal = <<>>
    /\ srv = NoSrv
    /\ meter_cache = [k \in StripIds |-> NoMeter]

(***************************************************************************)
(* The cache driven directly: ArdourState's methods and feedback handlers. *)
(***************************************************************************)
MaxMarkers == 1

\* inputs of mixed types are kept in sequences and drawn by index
CacheKwargs ==
    << << <<"muted", TRUE>> >>,
       << <<"invalid_field", "ignored">> >> >>

CacheTransportKwargs ==
    { [playing |-> TRUE, tempo |-> 140000], [playing |-> FALSE] }

CacheMsgs ==
    << [address |-> "/session_name", args |-> <<"MyProject">>],
       [address |-> "/dirty", args |-> <<1>>],
       [address |-> "/loop_toggle", args |-> <<1>>],
       [address |-> "/strip/solo", args |-> <<1, 1>>],
       [address |-> "/strip/gain", args |-> <<1>>],
       [address |-> "/unknown", args |-> <<>>] >>

MarkerInputs == { <<"Verse", 96000>> }

UpdateTrack ==
    \E s \in StripIds, i \in DOMAIN CacheKwargs :
        /\ CanUpdate(s)
        /\ LET u == update_track(s, CacheKwargs[i])
           IN  SetCache([CacheNow EXCEPT !.objs = u.objs, !.tracks = u.tracks], held)
        /\ lastCall' = NoCall
        /\ UNCHANGED <<connected, lock, lastFb, thr, prior, journal, srv, meter_cache>>

UpdateTransport ==
    \E kw \in CacheTransportKwargs :
        /\ SetCache([CacheNow EXCEPT !.transport = update_transport(kw)], held)
        /\ lastCall' = NoCall
        /\ UNCHANGED <<connected, lock, lastFb, thr, prior, journal, srv, meter_cache>>

\* the old dict object leaves the cache with the old SessionState: a caller
\* still holding it holds a mapping of its own from then on
Detached(h) == IF Aliased(h) THEN [h EXCEPT !.id = CacheDictId + 1] ELSE h

CountTracks == Cardinality({k \in StripIds : has_track(k)})

Clear ==
    /\ LET c == clear
       IN  /\ lock' = c.lock
           /\ SetCache([objs |-> objs, tracks |-> c.tracks, markers |-> c.markers,
                        transport |-> c.transport, session |-> c.session],
                       Detached(held))
    /\ lastCall' = Called("clear", <<CountTracks, Len(markers)>>)
    /\ lastFb' = NoFb
    /\ UNCHANGED <<connected, thr, prior, journal, srv, meter_cache>>

CacheFeedback ==
    \E i \in DOMAIN CacheMsgs :
        /\ FeedbackFits(CacheMsgs[i])
        /\ SetCache(on_feedback(CacheMsgs[i].address, CacheMsgs[i].args), held)
        /\ lastCall' = NoCall
        /\ lastFb' = NextFb(CacheMsgs[i])
        /\ UNCHANGED <<connected, lock, thr, prior, journal, srv, meter_cache>>

\* the marker sequence is filled by whoever holds the session state: no
\* feedback handler writes it
MarkersAppend ==
    \E m \in MarkerInputs :
        /\ Len(markers) < MaxMarkers
        /\ SetCache([CacheNow EXCEPT !.markers = Append(markers, m)], held)
        /\ lastCall' = NoCall
        /\ UNCHANGED <<connected, lock, lastFb, thr, prior, journal, srv, meter_cache>>

NextCache ==
    \/ UpdateTrack
    \/ UpdateTransport
    \/ Clear
    \/ CacheFeedback
    \/ MarkersAppend

SpecCache == Init /\ [][NextCache]_vars


(***************************************************************************)
(* A caller of get_all_tracks() and what it does to the value it got:      *)
(* entries inserted, removed or replaced in the mapping, and a field set   *)
(* on a record reached through it.                                         *)
(***************************************************************************)
HeldStep(op, args, o, t, h) ==
    /\ held' = Normal(o, t, h).held
    /\ tracks' = Normal(o, t, h).tracks
    /\ objs' = Normal(o, t, h).objs
    /\ lastCall' = Called(op, args)
    /\ UNCHANGED <<connected, lock, markers, transport, session, lastFb, thr, prior, journal, srv, meter_cache>>

\* the mapping object changed through the caller's reference: the cache's
\* own dict when the caller holds that very object
PutHeld(k, ref) == [held EXCEPT !.map[k] = ref]
PutTracks(k, ref) == IF Aliased(held) THEN [tracks EXCEPT ![k] = ref] ELSE tracks

GetAllTracks ==
    HeldStep("get_all_tracks", <<>>, objs, tracks, get_all_tracks)

HeldInsert ==
    \E k \in StripIds :
        /\ held.taken /\ held.map[k] = NoRef /\ HasFree
        /\ HeldStep("held_insert", <<k>>,
                    [objs EXCEPT ![Fresh] = TrackState(k)],
                    PutTracks(k, Fresh), PutHeld(k, Fresh))

HeldRemove ==
    \E k \in StripIds :
        /\ held.taken /\ held.map[k] # NoRef
        /\ HeldStep("held_remove", <<k>>, objs, PutTracks(k, NoRef), PutHeld(k, NoRef))

HeldReplace ==
    \E k \in StripIds :
        /\ held.taken /\ held.map[k] # NoRef /\ HasFree
        /\ HeldStep("held_replace", <<k>>,
                    [objs EXCEPT ![Fresh] = TrackState(k)],
                    PutTracks(k, Fresh), PutHeld(k, Fresh))

HeldSetField ==
    \E k \in StripIds :
        /\ held.taken /\ held.map[k] # NoRef
        /\ HeldStep("held_set", <<k>>,
                    [objs EXCEPT ![held.map[k]].muted = TRUE], tracks, held)

NextAlias ==
    \/ UpdateTrack
    \/ Clear
    \/ GetAllTracks
    \/ HeldInsert
    \/ HeldRemove
    \/ HeldReplace
    \/ HeldSetField

SpecAlias == Init /\ [][NextAlias]_vars

(***************************************************************************)
(* Two concurrent callers of update_track (test_concurrent_track_updates,  *)
(* spec section on concurrency).  A caller's position in the method:       *)
(*   "start"  before `with self._lock`                                     *)
(*   "locked" lock acquired, before the membership test                    *)
(*   "loop"   in `for key, value in kwargs.items()`, kw holds what is left *)
(*   "unlock" leaving the with block                                       *)
(*   "done"   returned                                                     *)
(* While a caller holds the lock its local `track` is the record bound to  *)
(* its strip_id: no other caller can rebind the entry.                     *)
(***************************************************************************)
Threads == {1, 2}

ConcCalls ==
    << [strip_id |-> 1, kw |-> << <<"gain_db", -6000>> >>],
       [strip_id |-> 2, kw |-> << <<"pan", 300>> >>] >>

Running == thr # <<>>

Spawn ==
    /\ ~Running
    /\ CanUpdate(1) /\ CanUpdate(2) /\ Cardinality(FreeRefs) >= 2
    /\ thr' = [t \in Threads |-> [pc |-> "start", kw |-> ConcCalls[t].kw]]
    /\ prior' = View
    /\ lastCall' = Called("spawn", <<>>)
    /\ UNCHANGED <<connected, lock, objs, tracks, markers, transport, session, held, lastFb, journal, srv, meter_cache>>

\* threading.RLock: free, or already owned by the caller
Acquire(t) ==
    /\ Running /\ thr[t].pc = "start"
    /\ lock.owner \in {NoOwner, t}
    /\ lock' = [lock EXCEPT !.owner = t, !.count = @ + 1]
    /\ thr' = [thr EXCEPT ![t].pc = "locked"]
    /\ UNCHANGED <<connected, objs, tracks, markers, transport, session, held,
                   lastCall, lastFb, prior, journal, srv, meter_cache>>

CreateIfAbsent(t) ==
    /\ Running /\ thr[t].pc = "locked"
    /\ LET e == track_entry(ConcCalls[t].strip_id)
       IN  SetCache([CacheNow EXCEPT !.objs = e.objs, !.tracks = e.tracks], held)
    /\ thr' = [thr EXCEPT ![t].pc = "loop"]
    /\ UNCHANGED <<connected, lock, lastCall, lastFb, prior, journal, srv, meter_cache>>

SetAttr(t) ==
    /\ Running /\ thr[t].pc = "loop" /\ Len(thr[t].kw) > 0
    /\ LET ref == get_track(ConcCalls[t].strip_id)
           kv  == Head(thr[t].kw)
       IN  SetCache([CacheNow EXCEPT
                        !.objs = [objs EXCEPT ![ref] = setattr_track(@, kv[1], kv[2])]],
                    held)
    /\ thr' = [thr EXCEPT ![t].kw = Tail(@)]
    /\ UNCHANGED <<connected, lock, lastCall, lastFb, prior, journal, srv, meter_cache>>

LoopEnd(t) ==
    /\ Running /\ thr[t].pc = "loop" /\ Len(thr[t].kw) = 0
    /\ thr' = [thr EXCEPT ![t].pc = "unlock"]
    /\ UNCHANGED <<connected, lock, objs, tracks, markers, transport, session, held,
                   lastCall, lastFb, prior, journal, srv, meter_cache>>

Release(t) ==
    /\ Running /\ thr[t].pc = "unlock"
    /\ lock.owner = t
    /\ lock' = [lock EXCEPT !.count = @ - 1,
                            !.owner = IF lock.count = 1 THEN NoOwner ELSE t]
    /\ thr' = [thr EXCEPT ![t].pc = "done"]
    /\ UNCHANGED <<connected, objs, tracks, markers, transport, session, held,
                   lastCall, lastFb, prior, journal, srv, meter_cache>>

Populate == ~Running /\ UpdateTrack

NextConc ==
    \/ Populate
    \/ Spawn
    \/ \E t \in Threads : Acquire(t)
    \/ \E t \in Threads : CreateIfAbsent(t)
    \/ \E t \in Threads : SetAttr(t)
    \/ \E t \in Threads : LoopEnd(t)
    \/ \E t \in Threads : Release(t)

SpecConc == Init /\ [][NextConc]_vars

(***************************************************************************)
(* The control facade (tools/*.py).  A write operation reads the bridge's  *)
(* is_connected(), validates, reads the cache and hands commands to the    *)
(* bridge's send_command.  The bridge in src/ is a stub whose connect()    *)
(* and send_command() always return False; the bridge here is the one the  *)
(* tests mock: is_connected() is the environment's, and each send is       *)
(* accepted or refused by the environment.  `refused` is the set of        *)
(* positions, within one call, of the sends that return False; k counts    *)
(* the sends the call has made so far.  A result carries every command     *)
(* handed to send_command, accepted or not.                                *)
(***************************************************************************)
MaxSends == 3
SendOutcomes == SUBSET (1..MaxSends)

GainMin == -193000
GainMax == 6000
PanMin == -1000
PanMax == 1000
TempoMin == 20000
TempoMax == 300000

is_connected == connected

Args(n, s) == [n |-> n, s |-> s]
Msg(address, args) == [address |-> address, args |-> args]
Ok(sent) == [success |-> TRUE, error |-> "", sent |-> sent]
Fail(error, sent) == [success |-> FALSE, error |-> error, sent |-> sent]
NotConnected == Fail("Not connected to Ardour", <<>>)

\* the call raises instead of returning: recorded under the exception's name
Exceptions == {"ValueError"}
Raise(exception) == [success |-> FALSE, error |-> exception, sent |-> <<>>]
TrackNotFound == Fail("Track not found", <<>>)

\* success = self.osc.send_command(address, *args), then the two returns
Accepted(refused, n) == n \notin refused

send_command(address, args, refused, k, failure) ==
    IF Accepted(refused, k + 1)
    THEN Ok(<<Msg(address, args)>>)
    ELSE Fail(failure, <<Msg(address, args)>>)

Flag(b) == IF b THEN 1 ELSE 0

\* str.strip() and str.lower() on the names and keywords callers pass
Strip(s) == IF s = " " THEN "" ELSE s
Lower(s) ==
    CASE s = "Input" -> "input"
      [] s = "Write" -> "write"
      [] s = "Gain"  -> "gain"
      [] OTHER       -> s

\* the shape shared by the single-strip switches: connection, track, one send
strip_command_unchecked(track_id, address, args, refused, k) ==
    IF ~is_connected THEN NotConnected
    ELSE send_command(address, args, refused, k, "Failed to send OSC command")

strip_command(track_id, address, args, refused, k) ==
    IF ~is_connected THEN NotConnected
    ELSE IF ~has_track(track_id) THEN TrackNotFound
    ELSE send_command(address, args, refused, k, "Failed to send OSC command")

(***************************************************************************)
(* MixerTools (tools/mixer.py)                                             *)
(***************************************************************************)
set_track_volume_unchecked(track_id, volume_db, refused, k) ==
    strip_command(track_id, "/strip/gain", <<track_id, volume_db>>, refused, k)

set_track_volume(track_id, volume_db, refused, k) ==
    IF ~is_connected THEN NotConnected
    ELSE IF ~(LeF(GainMin, volume_db) /\ LeF(volume_db, GainMax))
    THEN Fail("Volume out of range (-193.0 to +6.0)", <<>>)
    ELSE IF ~has_track(track_id) THEN TrackNotFound
    ELSE send_command("/strip/gain", <<track_id, volume_db>>, refused, k,
                      "Failed to send OSC command")

set_track_pan_unchecked(track_id, pan, refused, k) ==
    strip_command(track_id, "/strip/pan_stereo_position", <<track_id, pan>>, refused, k)

set_track_pan(track_id, pan, refused, k) ==
    IF ~is_connected THEN NotConnected
    ELSE IF ~(LeF(PanMin, pan) /\ LeF(pan, PanMax))
    THEN Fail("Pan out of range (-1.0 to +1.0)", <<>>)
    ELSE IF ~has_track(track_id) THEN TrackNotFound
    ELSE send_command("/strip/pan_stereo_position", <<track_id, pan>>, refused, k,
                      "Failed to send OSC command")

set_track_mute(track_id, muted, refused, k) ==
    strip_command(track_id, "/strip/mute", <<track_id, Flag(muted)>>, refused, k)

set_track_solo(track_id, soloed, refused, k) ==
    strip_command(track_id, "/strip/solo", <<track_id, Flag(soloed)>>, refused, k)

set_track_rec_enable(track_id, enabled, refused, k) ==
    strip_command(track_id, "/strip/recenable", <<track_id, Flag(enabled)>>, refused, k)

toggle_track_mute(track_id, refused, k) ==
    IF ~is_connected THEN NotConnected
    ELSE IF ~has_track(track_id) THEN TrackNotFound
    ELSE set_track_mute(track_id, ~track_of(track_id).muted, refused, k)

\* tracks.keys() of the snapshot; the model lists the keys in ascending order
TrackIds == SelectSeq([i \in 1..MaxStrip |-> i], LAMBDA i : has_track(i))

\* for track_id in tracks.keys(): result = await self.set_track_...(track_id, value)
\* a loop that stops at the first track whose command fails
RECURSIVE ForEachTrack_break(_, _, _, _, _)
ForEachTrack_break(field, ids, value, refused, k) ==
    IF Len(ids) = 0 THEN [sent |-> <<>>, failed |-> <<>>, count |-> 0]
    ELSE LET r    == IF field = "muted"
                     THEN set_track_mute(Head(ids), value, refused, k)
                     ELSE set_track_solo(Head(ids), value, refused, k)
             rest == ForEachTrack_break(field, Tail(ids), value, refused, k + Len(r.sent))
         IN  IF r.success
             THEN [sent |-> r.sent \o rest.sent, failed |-> rest.failed,
                   count |-> 1 + rest.count]
             ELSE [sent |-> r.sent, failed |-> <<Head(ids)>>, count |-> 0]

RECURSIVE ForEachTrack(_, _, _, _, _)
ForEachTrack(field, ids, value, refused, k) ==
    IF Len(ids) = 0 THEN [sent |-> <<>>, failed |-> <<>>, count |-> 0]
    ELSE LET r    == IF field = "muted"
                     THEN set_track_mute(Head(ids), value, refused, k)
                     ELSE set_track_solo(Head(ids), value, refused, k)
             rest == ForEachTrack(field, Tail(ids), value, refused, k + Len(r.sent))
         IN  [sent   |-> r.sent \o rest.sent,
              failed |-> (IF r.success THEN <<>> ELSE <<Head(ids)>>) \o rest.failed,
              count  |-> (IF r.success THEN 1 ELSE 0) + rest.count]

all_tracks(field, value, refused, k) ==
    IF ~is_connected THEN NotConnected
    ELSE IF Len(TrackIds) = 0 THEN Ok(<<>>)
    ELSE LET each == ForEachTrack(field, TrackIds, value, refused, k)
         IN  [success |-> Len(each.failed) = 0, error |-> "", sent |-> each.sent]

mute_all_tracks(refused, k) == all_tracks("muted", TRUE, refused, k)

MixerTools(op, a, refused) ==
    CASE op = "set_track_volume" -> set_track_volume(a.n[1], a.n[2], refused, 0)
      [] op = "set_track_pan" -> set_track_pan(a.n[1], a.n[2], refused, 0)
      [] op = "set_track_mute" -> set_track_mute(a.n[1], a.n[2] # 0, refused, 0)
      [] op = "toggle_track_mute" -> toggle_track_mute(a.n[1], refused, 0)
      [] op = "set_track_solo" -> set_track_solo(a.n[1], a.n[2] # 0, refused, 0)
      [] op = "toggle_track_solo" ->
            IF ~is_connected THEN NotConnected
            ELSE IF ~has_track(a.n[1]) THEN TrackNotFound
            ELSE set_track_solo(a.n[1], ~track_of(a.n[1]).soloed, refused, 0)
      [] op = "set_track_rec_enable" ->
            set_track_rec_enable(a.n[1], a.n[2] # 0, refused, 0)
      [] op = "toggle_track_rec_enable" ->
            IF ~is_connected THEN NotConnected
            ELSE IF ~has_track(a.n[1]) THEN TrackNotFound
            ELSE set_track_rec_enable(a.n[1], ~track_of(a.n[1]).rec_enabled, refused, 0)
      [] op = "arm_track_for_recording" -> set_track_rec_enable(a.n[1], TRUE, refused, 0)
      [] op = "disarm_track" -> set_track_rec_enable(a.n[1], FALSE, refused, 0)
      [] op = "mute_all_tracks" -> mute_all_tracks(refused, 0)
      [] op = "unmute_all_tracks" -> all_tracks("muted", FALSE, refused, 0)
      [] op = "clear_all_solos" -> all_tracks("soloed", FALSE, refused, 0)

Gains == {GainMin - 1, GainMin, GainMax, GainMax + 1, NaN}
Pans == {PanMin - 1, PanMin, PanMax, PanMax + 1, NaN}
OneTrack == {Args(<<t>>, <<>>) : t \in StripIds}
TrackAnd(values) == {Args(<<t, v>>, <<>>) : t \in StripIds, v \in values}
NoArgs == {Args(<<>>, <<>>)}

MixerInputs(op) ==
    CASE op = "set_track_volume" -> TrackAnd(Gains)
      [] op = "set_track_pan" -> TrackAnd(Pans)
      [] op \in {"set_track_mute", "set_track_solo", "set_track_rec_enable"} ->
            TrackAnd({0, 1})
      [] op \in {"mute_all_tracks", "unmute_all_tracks", "clear_all_solos"} -> NoArgs
      [] OTHER -> OneTrack

MixerOps ==
    {"set_track_volume", "set_track_pan", "set_track_mute", "toggle_track_mute",
     "set_track_solo", "toggle_track_solo", "set_track_rec_enable",
     "toggle_track_rec_enable", "arm_track_for_recording", "disarm_track",
     "mute_all_tracks", "unmute_all_tracks", "clear_all_solos"}

(***************************************************************************)
(* TrackTools (tools/tracks.py)                                            *)
(***************************************************************************)
\* an absent track only turns the reported name into "Unknown"
select_track(track_id, refused, k) ==
    IF ~is_connected THEN NotConnected
    ELSE IF track_id < 1 THEN Fail("Track ID must be positive (1-based)", <<>>)
    ELSE send_command("/strip/select", <<track_id, 1>>, refused, k,
                      "Failed to send track selection command")

rename_track(track_id, new_name, refused, k) ==
    IF ~is_connected THEN NotConnected
    ELSE IF track_id < 1 THEN Fail("Track ID must be positive (1-based)", <<>>)
    ELSE IF new_name = "" \/ Strip(new_name) = ""
    THEN Fail("Track name cannot be empty", <<>>)
    ELSE send_command("/strip/name", <<track_id, new_name>>, refused, k,
                      "Failed to send track rename command")

TrackTools(op, a, refused) ==
    CASE op = "create_audio_track" ->
            IF ~is_connected THEN NotConnected
            ELSE send_command("/add_audio_track", <<1>>, refused, 0,
                              "Failed to send track creation command")
      [] op = "create_midi_track" ->
            IF ~is_connected THEN NotConnected
            ELSE send_command("/add_midi_track", <<1>>, refused, 0,
                              "Failed to send track creation command")
      [] op = "select_track" -> select_track(a.n[1], refused, 0)
      [] op = "rename_track" -> rename_track(a.n[1], a.s[1], refused, 0)

TrackArgs == 0..MaxStrip

TrackInputs(op) ==
    CASE op = "select_track" -> {Args(<<t>>, <<>>) : t \in TrackArgs}
      [] op = "rename_track" ->
            {Args(<<t>>, <<s>>) : t \in TrackArgs, s \in {"", " ", "Lead"}}
      [] OTHER -> {Args(<<>>, <<"Lead">>)}

TrackOps == {"create_audio_track", "create_midi_track", "select_track", "rename_track"}

(***************************************************************************)
(* RecordingTools (tools/recording.py)                                     *)
(***************************************************************************)
\* start_recording without the rollback of the record-enable toggle
start_recording_no_rollback(refused, k) ==
    LET rec  == Msg("/rec_enable_toggle", <<>>)
        play == Msg("/transport_play", <<>>)
    IN  IF ~is_connected THEN NotConnected
        ELSE IF get_transport.recording THEN Fail("Already recording", <<>>)
        ELSE IF ~Accepted(refused, k + 1) THEN Fail("Failed to enable recording", <<rec>>)
        ELSE IF ~Accepted(refused, k + 2)
        THEN Fail("Failed to start transport", <<rec, play>>)
        ELSE Ok(<<rec, play>>)

start_recording(refused, k) ==
    LET rec  == Msg("/rec_enable_toggle", <<>>)
        play == Msg("/transport_play", <<>>)
    IN  IF ~is_connected THEN NotConnected
        ELSE IF get_transport.recording THEN Fail("Already recording", <<>>)
        ELSE IF ~Accepted(refused, k + 1) THEN Fail("Failed to enable recording", <<rec>>)
        ELSE IF ~Accepted(refused, k + 2)
        THEN Fail("Failed to start transport", <<rec, play, rec>>)
        ELSE Ok(<<rec, play>>)

\* stop_recording that toggles record-enable whatever the cache said
stop_recording_always_toggle(refused, k) ==
    LET stop == Msg("/transport_stop", <<>>)
        rec  == Msg("/rec_enable_toggle", <<>>)
    IN  IF ~is_connected THEN NotConnected
        ELSE IF ~Accepted(refused, k + 1) THEN Fail("Failed to stop transport", <<stop>>)
        ELSE IF ~Accepted(refused, k + 2)
        THEN Fail("Transport stopped but failed to disable recording mode", <<stop, rec>>)
        ELSE Ok(<<stop, rec>>)

stop_recording(refused, k) ==
    LET stop == Msg("/transport_stop", <<>>)
        rec  == Msg("/rec_enable_toggle", <<>>)
    IN  IF ~is_connected THEN NotConnected
        ELSE IF ~Accepted(refused, k + 1) THEN Fail("Failed to stop transport", <<stop>>)
        ELSE IF ~get_transport.recording THEN Ok(<<stop>>)
        ELSE IF ~Accepted(refused, k + 2)
        THEN Fail("Transport stopped but failed to disable recording mode", <<stop, rec>>)
        ELSE Ok(<<stop, rec>>)

\* two sends in a row, the second only after the first was accepted
two_commands(m1, fail1, m2, fail2, refused, k) ==
    IF ~Accepted(refused, k + 1) THEN Fail(fail1, <<m1>>)
    ELSE IF ~Accepted(refused, k + 2) THEN Fail(fail2, <<m1, m2>>)
    ELSE Ok(<<m1, m2>>)

set_punch_range_late_check(start_frame, end_frame, refused, k) ==
    LET punch_in  == Msg("/set_punch_in", <<start_frame>>)
        punch_out == Msg("/set_punch_out", <<end_frame>>)
    IN  IF ~is_connected THEN NotConnected
        ELSE IF start_frame < 0 THEN Fail("Invalid start_frame (must be >= 0)", <<>>)
        ELSE IF ~Accepted(refused, k + 1)
        THEN Fail("Failed to set punch-in point", <<punch_in>>)
        ELSE IF end_frame < 0 THEN Fail("Invalid end_frame (must be >= 0)", <<punch_in>>)
        ELSE IF start_frame >= end_frame
        THEN Fail("Invalid range: start_frame must be < end_frame", <<punch_in>>)
        ELSE IF ~Accepted(refused, k + 2)
        THEN Fail("Failed to set punch-out point", <<punch_in, punch_out>>)
        ELSE Ok(<<punch_in, punch_out>>)

set_punch_range(start_frame, end_frame, refused, k) ==
    IF ~is_connected THEN NotConnected
    ELSE IF start_frame < 0 THEN Fail("Invalid start_frame (must be >= 0)", <<>>)
    ELSE IF end_frame < 0 THEN Fail("Invalid end_frame (must be >= 0)", <<>>)
    ELSE IF start_frame >= end_frame
    THEN Fail("Invalid range: start_frame must be < end_frame", <<>>)
    ELSE two_commands(Msg("/set_punch_in", <<start_frame>>), "Failed to set punch-in point",
                      Msg("/set_punch_out", <<end_frame>>), "Failed to set punch-out point",
                      refused, k)

\* both commands are sent whatever the first returns
set_monitoring_mode(track_id, mode, refused, k) ==
    LET m == Lower(mode)
        sent == <<Msg("/strip/monitor_input", <<track_id, Flag(m = "input")>>),
                  Msg("/strip/monitor_disk", <<track_id, Flag(m = "disk")>>)>>
    IN  IF ~is_connected THEN NotConnected
        ELSE IF m \notin {"input", "disk", "auto"}
        THEN Fail("Invalid mode. Must be 'input', 'disk', or 'auto'", <<>>)
        ELSE IF ~has_track(track_id) THEN TrackNotFound
        ELSE IF Accepted(refused, k + 1) /\ Accepted(refused, k + 2) THEN Ok(sent)
        ELSE Fail("Failed to set monitoring mode", sent)

RecordingTools(op, a, refused) ==
    CASE op = "start_recording" -> start_recording(refused, 0)
      [] op = "stop_recording" -> stop_recording(refused, 0)
      [] op = "toggle_recording" ->
            IF ~is_connected THEN NotConnected
            ELSE send_command("/rec_enable_toggle", <<>>, refused, 0,
                              "Failed to toggle recording")
      [] op = "set_punch_range" -> set_punch_range(a.n[1], a.n[2], refused, 0)
      [] op = "enable_punch_in" ->
            IF ~is_connected THEN NotConnected
            ELSE send_command("/set_punch_in", <<1>>, refused, 0,
                              "Failed to enable punch-in")
      [] op = "enable_punch_out" ->
            IF ~is_connected THEN NotConnected
            ELSE send_command("/set_punch_out", <<1>>, refused, 0,
                              "Failed to enable punch-out")
      [] op = "clear_punch_range" ->
            IF ~is_connected THEN NotConnected
            ELSE two_commands(Msg("/set_punch_in", <<0>>), "Failed to disable punch-in",
                              Msg("/set_punch_out", <<0>>), "Failed to disable punch-out",
                              refused, 0)
      [] op = "set_input_monitoring" ->
            strip_command(a.n[1], "/strip/monitor_input", <<a.n[1], Flag(a.n[2] # 0)>>,
                          refused, 0)
      [] op = "set_disk_monitoring" ->
            strip_command(a.n[1], "/strip/monitor_disk", <<a.n[1], Flag(a.n[2] # 0)>>,
                          refused, 0)
      [] op = "set_monitoring_mode" -> set_monitoring_mode(a.n[1], a.s[1], refused, 0)

Frames == {-1, 0, 96000}

RecordingInputs(op) ==
    CASE op = "set_punch_range" -> {Args(<<s, e>>, <<>>) : s \in Frames, e \in Frames}
      [] op \in {"set_input_monitoring", "set_disk_monitoring"} -> TrackAnd({0, 1})
      [] op = "set_monitoring_mode" ->
            {Args(<<t>>, <<m>>) : t \in StripIds, m \in {"Input", "disk", "auto", "tape"}}
      [] OTHER -> NoArgs

RecordingOps ==
    {"start_recording", "stop_recording", "toggle_recording", "set_punch_range",
     "enable_punch_in", "enable_punch_out", "clear_punch_range",
     "set_input_monitoring", "set_disk_monitoring", "set_monitoring_mode"}

(***************************************************************************)
(* NavigationTools (tools/navigation.py)                                   *)
(***************************************************************************)
NoPosition == -999999999

\* create_marker that goes on to /add_marker after a refused /locate
create_marker_ignore_locate(name, position, refused, k) ==
    LET locate == Msg("/locate", <<position, 1>>)
        add    == Msg("/add_marker", <<name>>)
    IN  IF ~is_connected THEN NotConnected
        ELSE IF name = "" \/ Strip(name) = "" THEN Fail("Marker name cannot be empty", <<>>)
        ELSE IF position = NoPosition
        THEN send_command("/add_marker", <<name>>, refused, k, "Failed to create marker")
        ELSE IF position < 0 THEN Fail("Position must be non-negative", <<>>)
        ELSE IF ~Accepted(refused, k + 1) THEN Fail("Failed to locate to frame", <<locate, add>>)
        ELSE IF ~Accepted(refused, k + 2) THEN Fail("Failed to create marker", <<locate, add>>)
        ELSE Ok(<<locate, add>>)

create_marker(name, position, refused, k) ==
    LET locate == Msg("/locate", <<position, 1>>)
        add    == Msg("/add_marker", <<name>>)
    IN  IF ~is_connected THEN NotConnected
        ELSE IF name = "" \/ Strip(name) = "" THEN Fail("Marker name cannot be empty", <<>>)
        ELSE IF position = NoPosition
        THEN send_command("/add_marker", <<name>>, refused, k, "Failed to create marker")
        ELSE IF position < 0 THEN Fail("Position must be non-negative", <<>>)
        ELSE two_commands(locate, "Failed to locate to frame",
                          add, "Failed to create marker", refused, k)

delete_marker(name, refused, k) ==
    IF ~is_connected THEN NotConnected
    ELSE IF name = "" \/ Strip(name) = "" THEN Fail("Marker name cannot be empty", <<>>)
    ELSE send_command("/remove_marker", <<name>>, refused, k, "Failed to delete marker")

\* a lookup that keeps scanning and returns the last match
get_marker_position_last(name) ==
    LET hits == {i \in DOMAIN markers : markers[i][1] = name}
    IN  IF name = "" \/ Strip(name) = ""
        THEN [success |-> FALSE, error |-> "Marker name cannot be empty", position |-> NoPosition]
        ELSE IF hits = {}
        THEN [success |-> FALSE, error |-> "Marker not found in session", position |-> NoPosition]
        ELSE [success |-> TRUE, error |-> "",
              position |-> markers[CHOOSE i \in hits : \A j \in hits : i >= j][2]]

\* for marker_name, marker_position in markers: the first match
get_marker_position(name) ==
    LET hits == {i \in DOMAIN markers : markers[i][1] = name}
    IN  IF name = "" \/ Strip(name) = ""
        THEN [success |-> FALSE, error |-> "Marker name cannot be empty", position |-> NoPosition]
        ELSE IF hits = {}
        THEN [success |-> FALSE, error |-> "Marker not found in session", position |-> NoPosition]
        ELSE [success |-> TRUE, error |-> "",
              position |-> markers[CHOOSE i \in hits : \A j \in hits : i <= j][2]]

rename_marker(old_name, new_name, refused, k) ==
    LET found   == get_marker_position(old_name)
        deleted == delete_marker(old_name, refused, k)
        created == create_marker(new_name, found.position, refused, k + Len(deleted.sent))
        undone  == create_marker(old_name, found.position, refused,
                                 k + Len(deleted.sent) + Len(created.sent))
    IN  IF ~is_connected THEN NotConnected
        ELSE IF old_name = "" \/ Strip(old_name) = ""
        THEN Fail("Old marker name cannot be empty", <<>>)
        ELSE IF new_name = "" \/ Strip(new_name) = ""
        THEN Fail("New marker name cannot be empty", <<>>)
        ELSE IF ~found.success THEN Fail("Marker not found", <<>>)
        ELSE IF ~deleted.success THEN Fail("Failed to delete old marker", deleted.sent)
        ELSE IF ~created.success
        THEN Fail("Failed to create new marker", deleted.sent \o created.sent \o undone.sent)
        ELSE Ok(deleted.sent \o created.sent)

\* enable_loop that toggles without looking at the cache
enable_loop_unconditional(refused, k) ==
    IF ~is_connected THEN NotConnected
    ELSE send_command("/loop_toggle", <<>>, refused, k, "Failed to enable loop")

enable_loop(refused, k) ==
    IF ~is_connected THEN NotConnected
    ELSE IF get_transport.loop_enabled THEN Ok(<<>>)
    ELSE send_command("/loop_toggle", <<>>, refused, k, "Failed to enable loop")

disable_loop(refused, k) ==
    IF ~is_connected THEN NotConnected
    ELSE IF ~get_transport.loop_enabled THEN Ok(<<>>)
    ELSE send_command("/loop_toggle", <<>>, refused, k, "Failed to disable loop")

\* a tempo validator that excludes its bounds
set_tempo_exclusive(bpm, refused, k) ==
    IF ~is_connected THEN NotConnected
    ELSE IF ~(LtF(TempoMin, bpm) /\ LtF(bpm, TempoMax))
    THEN Fail("Tempo out of range (20.0 to 300.0)", <<>>)
    ELSE send_command("/set_tempo", <<bpm>>, refused, k, "Failed to send OSC command")

set_tempo(bpm, refused, k) ==
    IF ~is_connected THEN NotConnected
    ELSE IF ~(LeF(TempoMin, bpm) /\ LeF(bpm, TempoMax))
    THEN Fail("Tempo out of range (20.0 to 300.0)", <<>>)
    ELSE send_command("/set_tempo", <<bpm>>, refused, k, "Failed to send OSC command")

\* self.state.get_session_info().sample_rate or 48000
sample_rate_or_default == IF session.sample_rate = 0 THEN 48000 ELSE session.sample_rate

\* hours, minutes, seconds and frames to a frame number
timecode_to_frames(hours, minutes, seconds, frames) ==
    ((hours * 3600) + (minutes * 60) + seconds) * sample_rate_or_default + frames

\* bar number to a frame number: tempo is in 1/1000 BPM, the result truncated
\* (x * 1000 \div tempo, computed without leaving 32 bits)
bar_to_frames(bar_number) ==
    LET tempo     == IF get_transport.tempo = 0 THEN DefaultTempo ELSE get_transport.tempo
        numerator == get_transport.time_signature[1]
        x         == (bar_number - 1) * numerator * 60 * sample_rate_or_default
    IN  (x \div tempo) * 1000 + ((x % tempo) * 1000) \div tempo

\* int(seconds * sample_rate), seconds in 1/1000 s; int() of a NaN raises
frame_offset(seconds) == (seconds * sample_rate_or_default) \div 1000

NavigationTools(op, a, refused) ==
    CASE op = "create_marker" -> create_marker(a.s[1], a.n[1], refused, 0)
      [] op = "delete_marker" -> delete_marker(a.s[1], refused, 0)
      [] op = "rename_marker" -> rename_marker(a.s[1], a.s[2], refused, 0)
      [] op = "goto_marker" ->
            IF ~is_connected THEN NotConnected
            ELSE IF a.s[1] = "" \/ Strip(a.s[1]) = ""
            THEN Fail("Marker name cannot be empty", <<>>)
            ELSE send_command("/locate", <<a.s[1]>>, refused, 0, "Failed to jump to marker")
      [] op = "set_loop_range" ->
            IF ~is_connected THEN NotConnected
            ELSE IF a.n[1] < 0 \/ a.n[2] < 0
            THEN Fail("Frame values must be non-negative", <<>>)
            ELSE IF a.n[2] <= a.n[1] THEN Fail("End frame must be after start frame", <<>>)
            ELSE send_command("/set_loop_range", <<a.n[1], a.n[2]>>, refused, 0,
                              "Failed to set loop range")
      [] op = "enable_loop" -> enable_loop(refused, 0)
      [] op = "disable_loop" -> disable_loop(refused, 0)
      [] op = "clear_loop_range" ->
            IF ~is_connected THEN NotConnected ELSE disable_loop(refused, 0)
      [] op = "set_tempo" -> set_tempo(a.n[1], refused, 0)
      [] op = "set_time_signature" ->
            IF ~is_connected THEN NotConnected
            ELSE IF a.n[1] < 1 \/ a.n[1] > 32 THEN Fail("Numerator out of range (1 to 32)", <<>>)
            ELSE IF a.n[2] \notin {1, 2, 4, 8, 16, 32}
            THEN Fail("Denominator must be one of [1, 2, 4, 8, 16, 32]", <<>>)
            ELSE send_command("/set_time_signature", <<a.n[1], a.n[2]>>, refused, 0,
                              "Failed to send OSC command")
      [] op = "goto_time" ->
            IF ~is_connected THEN NotConnected
            ELSE IF a.n[1] < 0 \/ a.n[2] < 0 \/ a.n[3] < 0 \/ a.n[4] < 0
            THEN Fail("Timecode components must be non-negative", <<>>)
            ELSE IF a.n[2] > 59 THEN Fail("Minutes must be 0-59", <<>>)
            ELSE IF a.n[3] > 59 THEN Fail("Seconds must be 0-59", <<>>)
            ELSE send_command("/locate",
                              <<timecode_to_frames(a.n[1], a.n[2], a.n[3], a.n[4]), 1>>,
                              refused, 0, "Failed to locate to timecode")
      [] op = "goto_bar" ->
            IF ~is_connected THEN NotConnected
            ELSE IF a.n[1] < 1 THEN Fail("Bar number must be positive (1-based)", <<>>)
            ELSE send_command("/locate", <<bar_to_frames(a.n[1]), 1>>, refused, 0,
                              "Failed to jump to bar")
      [] op = "skip_forward" ->
            IF ~is_connected THEN NotConnected
            ELSE IF LtF(a.n[1], 0) THEN Fail("Seconds must be non-negative", <<>>)
            ELSE IF a.n[1] = NaN THEN Raise("ValueError")
            ELSE send_command("/locate", <<get_transport.frame + frame_offset(a.n[1]), 1>>,
                              refused, 0, "Failed to skip forward")
      [] op = "skip_backward" ->
            IF ~is_connected THEN NotConnected
            ELSE IF LtF(a.n[1], 0) THEN Fail("Seconds must be non-negative", <<>>)
            ELSE IF a.n[1] = NaN THEN Raise("ValueError")
            ELSE send_command("/locate",
                              <<IF get_transport.frame - frame_offset(a.n[1]) < 0 THEN 0
                                ELSE get_transport.frame - frame_offset(a.n[1]), 1>>,
                              refused, 0, "Failed to skip backward")

MarkerNames == {"", "Verse", "Bridge"}
Tempos == {TempoMin - 1, TempoMin, TempoMax, TempoMax + 1, NaN}

NavigationInputs(op) ==
    CASE op = "create_marker" ->
            {Args(<<p>>, <<s>>) : p \in {NoPosition, -1, 96000}, s \in {"", "Verse"}}
      [] op \in {"delete_marker", "goto_marker"} -> {Args(<<>>, <<s>>) : s \in {" ", "Verse"}}
      [] op = "rename_marker" -> {Args(<<>>, <<s, t>>) : s \in MarkerNames, t \in {"", "Chorus"}}
      [] op = "set_loop_range" -> {Args(<<s, e>>, <<>>) : s \in Frames, e \in Frames}
      [] op = "set_tempo" -> {Args(<<v>>, <<>>) : v \in Tempos}
      [] op = "set_time_signature" -> {Args(<<n, d>>, <<>>) : n \in {0, 3, 33}, d \in {3, 4}}
      [] op = "goto_time" ->
            {Args(<<0, 1, 30, 0>>, <<>>), Args(<<0, 60, 0, 0>>, <<>>),
             Args(<<0, 0, 60, 0>>, <<>>), Args(<<0, 0, 0, -1>>, <<>>)}
      [] op = "goto_bar" -> {Args(<<b>>, <<>>) : b \in {0, 1, 5}}
      [] op \in {"skip_forward", "skip_backward"} ->
            {Args(<<s>>, <<>>) : s \in {-1000, 0, 2000, NaN}}
      [] OTHER -> NoArgs

NavigationOps ==
    {"create_marker", "delete_marker", "rename_marker", "goto_marker", "set_loop_range",
     "enable_loop", "disable_loop", "clear_loop_range", "set_tempo", "set_time_signature",
     "goto_time", "goto_bar", "skip_forward", "skip_backward"}

(***************************************************************************)
(* AutomationTools (tools/automation.py)                                   *)
(***************************************************************************)
AutomationModes == {"off", "play", "write", "touch", "latch"}

mode_map(mode) ==
    CASE mode = "off" -> 0 [] mode = "play" -> 1 [] mode = "write" -> 2
      [] mode = "touch" -> 3 [] mode = "latch" -> 4

\* f"/strip/{parameter.lower()}/automation_mode"
automation_address(parameter) ==
    CASE parameter = "gain" -> "/strip/gain/automation_mode"
      [] parameter = "pan" -> "/strip/pan/automation_mode"
      [] parameter = "mute" -> "/strip/mute/automation_mode"
      [] parameter = "plugin" -> "/strip/plugin/automation_mode"

\* the same with the track looked up before the mode and the parameter
set_automation_mode_track_first(track_id, parameter, mode, refused, k) ==
    IF ~is_connected THEN NotConnected
    ELSE IF ~has_track(track_id) THEN TrackNotFound
    ELSE IF Lower(mode) \notin AutomationModes THEN Fail("Invalid mode", <<>>)
    ELSE IF Lower(parameter) \notin {"gain", "pan", "mute", "plugin"}
    THEN Fail("Invalid parameter", <<>>)
    ELSE send_command(automation_address(Lower(parameter)),
                      <<track_id, mode_map(Lower(mode))>>, refused, k,
                      "Failed to send OSC command")

set_automation_mode(track_id, parameter, mode, refused, k) ==
    IF ~is_connected THEN NotConnected
    ELSE IF Lower(mode) \notin AutomationModes THEN Fail("Invalid mode", <<>>)
    ELSE IF Lower(parameter) \notin {"gain", "pan", "mute", "plugin"}
    THEN Fail("Invalid parameter", <<>>)
    ELSE IF ~has_track(track_id) THEN TrackNotFound
    ELSE send_command(automation_address(Lower(parameter)),
                      <<track_id, mode_map(Lower(mode))>>, refused, k,
                      "Failed to send OSC command")

\* no is_connected() test of its own: the track is looked up first, and any
\* failure of set_automation_mode is reported as "Failed to clear automation"
clear_automation(track_id, parameter, refused, k) ==
    LET result == set_automation_mode(track_id, parameter, "off", refused, k)
    IN  IF ~has_track(track_id) THEN TrackNotFound
        ELSE IF result.success THEN Ok(result.sent)
        ELSE Fail("Failed to clear automation", result.sent)

AutomationTools(op, a, refused) ==
    CASE op = "set_automation_mode" ->
            set_automation_mode(a.n[1], a.s[1], a.s[2], refused, 0)
      [] op = "enable_automation_write" ->
            strip_command(a.n[1], "/strip/automation_mode", <<a.n[1], 2>>, refused, 0)
      [] op = "disable_automation_write" ->
            strip_command(a.n[1], "/strip/automation_mode", <<a.n[1], 1>>, refused, 0)
      [] op = "record_automation" ->
            set_automation_mode(a.n[1], a.s[1], "write", refused, 0)
      [] op \in {"stop_automation_recording", "enable_automation_playback"} ->
            set_automation_mode(a.n[1], a.s[1], "play", refused, 0)
      [] op = "disable_automation_playback" ->
            set_automation_mode(a.n[1], a.s[1], "off", refused, 0)
      [] op = "clear_automation" -> clear_automation(a.n[1], a.s[1], refused, 0)

AutomationInputs(op) ==
    CASE op = "set_automation_mode" ->
            {Args(<<t>>, <<p, m>>) : t \in StripIds, p \in {"Gain", "volume"},
                                     m \in {"Write", "touch", "read"}}
      [] op \in {"enable_automation_write", "disable_automation_write"} -> OneTrack
      [] OTHER -> {Args(<<t>>, <<p>>) : t \in StripIds, p \in {"gain", "volume"}}

AutomationOps ==
    {"set_automation_mode", "enable_automation_write", "disable_automation_write",
     "record_automation", "stop_automation_recording", "clear_automation",
     "enable_automation_playback", "disable_automation_playback"}

(***************************************************************************)
(* AdvancedMixerTools (tools/advanced_mixer.py)                            *)
(***************************************************************************)
enable_send(track_id, send_id, enabled, refused, k) ==
    IF ~is_connected THEN NotConnected
    ELSE IF ~has_track(track_id) THEN TrackNotFound
    ELSE IF send_id < 0 THEN Fail("Send ID invalid (must be >= 0)", <<>>)
    ELSE send_command("/strip/send/enable", <<track_id, send_id, Flag(enabled)>>,
                      refused, k, "Failed to send OSC command")

activate_plugin(track_id, plugin_id, active, refused, k) ==
    IF ~is_connected THEN NotConnected
    ELSE IF ~has_track(track_id) THEN TrackNotFound
    ELSE IF plugin_id < 0 THEN Fail("Plugin ID invalid (must be >= 0)", <<>>)
    ELSE send_command("/strip/plugin/activate", <<track_id, plugin_id, active>>,
                      refused, k, "Failed to send OSC command")

AdvancedMixerTools(op, a, refused) ==
    CASE op = "set_send_level" ->
            IF ~is_connected THEN NotConnected
            ELSE IF ~(LeF(GainMin, a.n[3]) /\ LeF(a.n[3], GainMax))
            THEN Fail("Send level out of range (-193.0 to +6.0)", <<>>)
            ELSE IF ~has_track(a.n[1]) THEN TrackNotFound
            ELSE IF a.n[2] < 0 THEN Fail("Send ID invalid (must be >= 0)", <<>>)
            ELSE send_command("/strip/send/gain", <<a.n[1], a.n[2], a.n[3]>>, refused, 0,
                              "Failed to send OSC command")
      [] op = "enable_send" -> enable_send(a.n[1], a.n[2], a.n[3] # 0, refused, 0)
      [] op = "toggle_send" ->
            IF ~is_connected THEN NotConnected
            ELSE IF ~has_track(a.n[1]) THEN TrackNotFound
            ELSE IF a.n[2] < 0 THEN Fail("Send ID invalid (must be >= 0)", <<>>)
            ELSE enable_send(a.n[1], a.n[2], TRUE, refused, 0)
      [] op = "set_plugin_parameter" ->
            IF ~is_connected THEN NotConnected
            ELSE IF ~has_track(a.n[1]) THEN TrackNotFound
            ELSE IF a.n[2] < 0 THEN Fail("Plugin ID invalid (must be >= 0)", <<>>)
            ELSE IF a.n[3] < 0 THEN Fail("Parameter ID invalid (must be >= 0)", <<>>)
            ELSE send_command("/strip/plugin/parameter", <<a.n[1], a.n[2], a.n[3], a.n[4]>>,
                              refused, 0, "Failed to send OSC command")
      [] op = "activate_plugin" -> activate_plugin(a.n[1], a.n[2], 1, refused, 0)
      [] op = "deactivate_plugin" -> activate_plugin(a.n[1], a.n[2], 0, refused, 0)
      [] op = "toggle_plugin" ->
            IF ~is_connected THEN NotConnected
            ELSE IF ~has_track(a.n[1]) THEN TrackNotFound
            ELSE IF a.n[2] < 0 THEN Fail("Plugin ID invalid (must be >= 0)", <<>>)
            ELSE activate_plugin(a.n[1], a.n[2], 1, refused, 0)

AdvancedMixerInputs(op) ==
    CASE op = "set_send_level" ->
            {Args(<<t, s, v>>, <<>>) : t \in StripIds, s \in {-1, 0}, v \in {GainMax, GainMax + 1}}
      [] op = "enable_send" ->
            {Args(<<t, s, e>>, <<>>) : t \in StripIds, s \in {-1, 0}, e \in {0, 1}}
      [] op = "set_plugin_parameter" ->
            {Args(<<t, p, q, 500>>, <<>>) : t \in StripIds, p \in {-1, 0}, q \in {-1, 0}}
      [] OTHER -> TrackAnd({-1, 0})

AdvancedMixerOps ==
    {"set_send_level", "enable_send", "toggle_send", "set_plugin_parameter",
     "activate_plugin", "deactivate_plugin", "toggle_plugin"}

(***************************************************************************)
(* Read operations of the facade used below.                               *)
(***************************************************************************)
get_track_mixer_state(track_id) ==
    IF ~has_track(track_id) THEN [success |-> FALSE, error |-> "Track not found"]
    ELSE LET track == track_of(track_id)
         IN  [success |-> TRUE, error |-> "", track_id |-> track.strip_id,
              track_name |-> track.name, track_type |-> track.track_type,
              gain_db |-> track.gain_db, pan |-> track.pan, muted |-> track.muted,
              soloed |-> track.soloed, rec_enabled |-> track.rec_enabled]

(***************************************************************************)
(* The running system: the bridge connects and disconnects, feedback       *)
(* arrives and is applied to the cache, the server stops, and a client     *)
(* issues facade calls one at a time, taking the result of a call (Reply)  *)
(* before issuing the next.  lastCall is the call whose result has not     *)
(* been taken yet.                                                         *)
(***************************************************************************)
WriteOps ==
    MixerOps \cup TrackOps \cup RecordingOps \cup NavigationOps
        \cup AutomationOps \cup AdvancedMixerOps

Idle == lastCall.op \notin WriteOps

\* what the caller gets back, with the call it answers
Result(op, a, r) ==
    [op |-> op, args |-> a, conn |-> connected, success |-> r.success,
     error |-> r.error, sent |-> r.sent, fb |-> <<>>]

\* the result of the call, as it would be if a write that was sent were also
\* applied to the cache at once
Return_optimistic(op, a, r) ==
    /\ lastCall' = Result(op, a, r)
    /\ IF r.success /\ op \in {"set_track_volume", "set_track_mute"}
       THEN LET u == update_track(a.n[1],
                        IF op = "set_track_volume" THEN << <<"gain_db", a.n[2]>> >>
                        ELSE << <<"muted", a.n[2] # 0>> >>)
            IN  SetCache([CacheNow EXCEPT !.objs = u.objs, !.tracks = u.tracks], held)
       ELSE UNCHANGED <<objs, tracks, markers, transport, session, held, srv, meter_cache>>
    /\ UNCHANGED <<connected, lock, lastFb, thr, prior, journal, srv, meter_cache>>

\* return {...}: the result goes to the caller, the cache is not touched
Return(op, a, r) ==
    /\ lastCall' = Result(op, a, r)
    /\ UNCHANGED <<connected, lock, objs, tracks, markers, transport, session, held,
                   lastFb, thr, prior, journal, srv, meter_cache>>

MixerCall ==
    \E op \in MixerOps, refused \in SendOutcomes :
        \E a \in MixerInputs(op) : Idle /\ Return(op, a, MixerTools(op, a, refused))

TrackCall ==
    \E op \in TrackOps, refused \in SendOutcomes :
        \E a \in TrackInputs(op) : Idle /\ Return(op, a, TrackTools(op, a, refused))

RecordingCall ==
    \E op \in RecordingOps, refused \in SendOutcomes :
        \E a \in RecordingInputs(op) : Idle /\ Return(op, a, RecordingTools(op, a, refused))

NavigationCall ==
    \E op \in NavigationOps, refused \in SendOutcomes :
        \E a \in NavigationInputs(op) : Idle /\ Return(op, a, NavigationTools(op, a, refused))

AutomationCall ==
    \E op \in AutomationOps, refused \in SendOutcomes :
        \E a \in AutomationInputs(op) : Idle /\ Return(op, a, AutomationTools(op, a, refused))

AdvancedMixerCall ==
    \E op \in AdvancedMixerOps, refused \in SendOutcomes :
        \E a \in AdvancedMixerInputs(op) :
            Idle /\ Return(op, a, AdvancedMixerTools(op, a, refused))

Reply ==
    /\ ~Idle
    /\ lastCall' = NoCall
    /\ UNCHANGED <<connected, lock, objs, tracks, markers, transport, session, held,
                   lastFb, thr, prior, journal, srv, meter_cache>>

Connect ==
    /\ Idle /\ ~connected
    /\ connected' = TRUE
    /\ lastCall' = NoCall
    /\ UNCHANGED <<lock, objs, tracks, markers, transport, session, held, lastFb, thr, prior, journal, srv, meter_cache>>

Disconnect_toggle ==
    /\ Idle
    /\ connected' = ~connected
    /\ lastCall' = Called("disconnect", <<>>)
    /\ UNCHANGED <<lock, objs, tracks, markers, transport, session, held, lastFb,
                   thr, prior, journal, srv, meter_cache>>

\* disconnect(): callable in every state, the bridge is not connected afterwards
Disconnect ==
    /\ Idle
    /\ connected' = FALSE
    /\ lastCall' = Called("disconnect", <<>>)
    /\ UNCHANGED <<lock, objs, tracks, markers, transport, session, held, lastFb,
                   thr, prior, journal, srv, meter_cache>>

StopArgs ==
    <<CountTracks, Len(markers),
      IF transport = TransportState \/ session = SessionFields THEN 0 ELSE 1>>

Stop_without_clear ==
    /\ Idle
    /\ connected' = FALSE
    /\ lastCall' = Called("stop", StopArgs)
    /\ UNCHANGED <<lock, objs, tracks, markers, transport, session, held, lastFb,
                   thr, prior, journal, srv, meter_cache>>

\* ArdourMCPServer.stop: osc_bridge.disconnect() and then state.clear()
Stop ==
    /\ Idle
    /\ connected' = FALSE
    /\ LET c == clear
       IN  /\ lock' = c.lock
           /\ SetCache([objs |-> objs, tracks |-> c.tracks, markers |-> c.markers,
                        transport |-> c.transport, session |-> c.session],
                       Detached(held))
    /\ lastCall' = Called("stop", StopArgs)
    /\ lastFb' = NoFb
    /\ UNCHANGED <<thr, prior, journal, srv, meter_cache>>

MaxPending == 2

FacadeMsgs ==
    << [address |-> "/strip/mute", args |-> <<1, 1>>],
       [address |-> "/strip/mute", args |-> <<1, 0>>],
       [address |-> "/strip/mute", args |-> <<MaxStrip, 1>>],
       [address |-> "/record_enabled", args |-> <<1>>],
       [address |-> "/loop_toggle", args |-> <<1>>] >>

\* feedback is applied between calls, or while the result of a mute write waits
FacadeFeedback ==
    \E i \in DOMAIN FacadeMsgs :
        /\ Idle \/ (lastCall.op = "set_track_mute" /\ Len(lastCall.fb) < MaxPending)
        /\ FeedbackFits(FacadeMsgs[i])
        /\ SetCache(on_feedback(FacadeMsgs[i].address, FacadeMsgs[i].args), held)
        /\ lastCall' = IF Idle THEN NoCall
                       ELSE [lastCall EXCEPT !.fb = Append(@, FacadeMsgs[i])]
        /\ lastFb' = NextFb(FacadeMsgs[i])
        /\ UNCHANGED <<connected, lock, thr, prior, journal, srv, meter_cache>>

AddMarker == Idle /\ MarkersAppend

NextFacade ==
    \/ Connect
    \/ Disconnect
    \/ Stop
    \/ FacadeFeedback
    \/ AddMarker
    \/ MixerCall
    \/ TrackCall
    \/ RecordingCall
    \/ NavigationCall
    \/ AutomationCall
    \/ AdvancedMixerCall
    \/ Reply

SpecFacade == Init /\ [][NextFacade]_vars

(***************************************************************************)
(* The track records under every way the cache is written: update_track    *)
(* called with one or several fields, the feedback handlers on well-formed *)
(* and malformed messages, and clear().  lastCall names the call made.     *)
(***************************************************************************)
TrackKwargs ==
    << << <<"muted", TRUE>> >>,
       << <<"invalid_field", "ignored">> >>,
       << <<"muted", FALSE>>, <<"gain_db", -6000>> >> >>

TrackMsgs ==
    << [address |-> "/strip/solo", args |-> <<MaxStrip, 1>>],
       [address |-> "/strip/recenable", args |-> <<1, 1>>],
       [address |-> "/transport_frame", args |-> <<96000>>],
       [address |-> "/transport_frame", args |-> <<>>],
       [address |-> "/strip/gain", args |-> <<1>>],
       [address |-> "/time_signature", args |-> <<4>>] >>

\* an update that rebuilds the dictionary around the one strip it writes
UpdateTrackCall_evict ==
    \E s \in StripIds, i \in DOMAIN TrackKwargs :
        /\ CanUpdate(s)
        /\ LET u == update_track(s, TrackKwargs[i])
           IN  SetCache([CacheNow EXCEPT
                            !.objs = u.objs,
                            !.tracks = [k \in StripIds |->
                                           IF k = s THEN u.tracks[k] ELSE NoRef]],
                        Detached(held))
        /\ lastCall' = Called("update_track", <<s, i>>)
        /\ UNCHANGED <<connected, lock, lastFb, thr, prior, journal, srv, meter_cache>>

UpdateTrackCall ==
    \E s \in StripIds, i \in DOMAIN TrackKwargs :
        /\ CanUpdate(s)
        /\ LET u == update_track(s, TrackKwargs[i])
           IN  SetCache([CacheNow EXCEPT !.objs = u.objs, !.tracks = u.tracks], held)
        /\ lastCall' = Called("update_track", <<s, i>>)
        /\ UNCHANGED <<connected, lock, lastFb, thr, prior, journal, srv, meter_cache>>

FeedbackCall ==
    \E i \in DOMAIN TrackMsgs :
        /\ FeedbackFits(TrackMsgs[i])
        /\ SetCache(on_feedback(TrackMsgs[i].address, TrackMsgs[i].args), held)
        /\ lastCall' = Called("feedback", <<i>>)
        /\ lastFb' = NextFb(TrackMsgs[i])
        /\ UNCHANGED <<connected, lock, thr, prior, journal, srv, meter_cache>>

NextTrack ==
    \/ UpdateTrackCall
    \/ FeedbackCall
    \/ MarkersAppend
    \/ Clear

SpecTrack == Init /\ [][NextTrack]_vars

(***************************************************************************)
(* A toggle seen step by step (toggle_track_mute, toggle_track_solo,       *)
(* toggle_track_rec_enable): the method tests the connection, reads the    *)
(* track record and negates its field; then it calls the setter, which     *)
(* tests the connection and the track again and sends.  Feedback is        *)
(* handled on the receive thread and can be applied between the two.       *)
(* thr holds the toggle in progress: the field value it read.              *)
(***************************************************************************)
ToggleOps == {"toggle_track_mute", "toggle_track_solo", "toggle_track_rec_enable"}

ToggleField(op) ==
    CASE op = "toggle_track_mute" -> "muted"
      [] op = "toggle_track_solo" -> "soloed"
      [] op = "toggle_track_rec_enable" -> "rec_enabled"

\* return await self.set_track_...(track_id, new_value)
toggle_setter(op, track_id, value, refused) ==
    CASE op = "toggle_track_mute" -> set_track_mute(track_id, value, refused, 0)
      [] op = "toggle_track_solo" -> set_track_solo(track_id, value, refused, 0)
      [] op = "toggle_track_rec_enable" -> set_track_rec_enable(track_id, value, refused, 0)

Toggling == thr # <<>>

\* the checks, then track = get_track(track_id) and new_value = not track.<field>
ToggleRead ==
    \E op \in ToggleOps, track_id \in StripIds :
        /\ Idle /\ ~Toggling
        /\ IF ~is_connected
           THEN /\ lastCall' = Result(op, Args(<<track_id>>, <<>>), NotConnected)
                /\ thr' = thr
           ELSE IF ~has_track(track_id)
           THEN /\ lastCall' = Result(op, Args(<<track_id>>, <<>>), TrackNotFound)
                /\ thr' = thr
           ELSE /\ lastCall' = NoCall
                /\ thr' = <<[pc |-> "negated", op |-> op, track_id |-> track_id,
                             seen |-> track_of(track_id)[ToggleField(op)]]>>
        /\ UNCHANGED <<connected, lock, objs, tracks, markers, transport, session,
                       held, lastFb, prior, journal, srv, meter_cache>>

ToggleSend_reread ==
    \E refused \in SendOutcomes :
        /\ Toggling
        /\ lastCall' = Result(thr[1].op, Args(<<thr[1].track_id>>, <<>>),
                              IF has_track(thr[1].track_id)
                              THEN toggle_setter(thr[1].op, thr[1].track_id,
                                       ~track_of(thr[1].track_id)[ToggleField(thr[1].op)],
                                       refused)
                              ELSE TrackNotFound)
        /\ thr' = <<>>
        /\ UNCHANGED <<connected, lock, objs, tracks, markers, transport, session,
                       held, lastFb, prior, journal, srv, meter_cache>>

\* the setter runs with the value negated at the read
ToggleSend ==
    \E refused \in SendOutcomes :
        /\ Toggling
        /\ lastCall' = Result(thr[1].op, Args(<<thr[1].track_id>>, <<>>),
                              toggle_setter(thr[1].op, thr[1].track_id, ~thr[1].seen,
                                            refused))
        /\ thr' = <<>>
        /\ UNCHANGED <<connected, lock, objs, tracks, markers, transport, session,
                       held, lastFb, prior, journal, srv, meter_cache>>

NextToggle ==
    \/ Connect
    \/ Disconnect
    \/ UpdateTrack
    \/ CacheFeedback
    \/ ToggleRead
    \/ ToggleSend
    \/ Reply

SpecToggle == Init /\ [][NextToggle]_vars

(***************************************************************************)
(* The server's life: the bridge connects and disconnects, feedback fills  *)
(* the cache, and stop() disconnects the bridge and clears the cache.      *)
(***************************************************************************)
NextServer ==
    \/ Connect
    \/ Disconnect
    \/ Stop
    \/ CacheFeedback
    \/ UpdateTrack
    \/ MarkersAppend

SpecServer == Init /\ [][NextServer]_vars

(***************************************************************************)
(* The marker scenario: a client creates and deletes markers through       *)
(* NavigationTools and then asks for a marker's position.  create_marker   *)
(* and delete_marker hand /locate, /add_marker and /remove_marker to the   *)
(* bridge; get_marker_position scans the cached marker sequence.  journal  *)
(* keeps the latest MaxJournal marker calls that succeeded.                *)
(***************************************************************************)
MaxJournal == 3

MarkerCallInputs(op) ==
    IF op = "create_marker"
    THEN {Args(<<p>>, <<"Verse">>) : p \in {96000, 120000}}
    ELSE {Args(<<>>, <<"Verse">>)}

Latest(j) == IF Len(j) <= MaxJournal THEN j ELSE SubSeq(j, Len(j) - MaxJournal + 1, Len(j))

MarkerCall ==
    \E op \in {"create_marker", "delete_marker"}, refused \in SendOutcomes :
        \E a \in MarkerCallInputs(op) :
            LET r == NavigationTools(op, a, refused)
            IN  /\ Idle
                /\ lastCall' = Result(op, a, r)
                /\ journal' = IF r.success
                              THEN Latest(Append(journal, [op |-> op, args |-> a]))
                              ELSE journal
                /\ UNCHANGED <<connected, lock, objs, tracks, markers, transport,
                               session, held, lastFb, thr, prior, srv, meter_cache>>

NextMarkers ==
    \/ Connect
    \/ Disconnect
    \/ AddMarker
    \/ MarkerCall
    \/ Reply

SpecMarkers == Init /\ [][NextMarkers]_vars


(***************************************************************************)
(* The lock seen step by step.  Each method of ArdourState is              *)
(* `with self._lock:` around its body, and self._lock is a threading.RLock *)
(* (ardour_state.py:67).  A caller's position:                             *)
(*   "idle"   outside every cache method                                   *)
(*   "start"  called method op, before `with self._lock`                   *)
(*   "locked" inside the with block, body not yet run                      *)
(*   "unlock" body run, leaving the with block                             *)
(*   "send"   a facade operation that got its track from get_track and now *)
(*            hands its command to the bridge                              *)
(* outer marks a caller that took the cache's lock itself before calling   *)
(* cache methods.  The tool classes never touch the lock: a facade         *)
(* operation is run by a caller that is not holding it.                    *)
(***************************************************************************)
LockOps == {"update_transport", "update_track", "get_transport", "get_track",
            "get_all_tracks", "get_session_info", "clear"}

LockIdle == [pc |-> "idle", op |-> "none", tool |-> FALSE, outer |-> FALSE]

LockThr(t) == IF thr = <<>> THEN LockIdle ELSE thr[t]

LockSet(t, rec) == thr' = [u \in Threads |-> IF u = t THEN rec ELSE LockThr(u)]

\* threading.Lock in place of threading.RLock: the owner waits for itself
rlock_acquire_plain(t) == lock.owner = NoOwner

\* threading.RLock.acquire returns when the lock is free or owned by the caller
rlock_acquire(t) == lock.owner \in {NoOwner, t}

\* a cache method's body, run inside the with block
LockBody(op) ==
    CASE op = "update_transport" ->
            [CacheNow EXCEPT !.transport = update_transport([playing |-> TRUE])]
      [] op = "update_track" ->
            LET u == update_track(1, << <<"muted", TRUE>> >>)
            IN  [CacheNow EXCEPT !.objs = u.objs, !.tracks = u.tracks]
      [] op = "clear" ->
            [objs |-> objs, tracks |-> clear.tracks, markers |-> clear.markers,
             transport |-> clear.transport, session |-> clear.session]
      [] OTHER -> CacheNow

LockCall(t) ==
    \E op \in LockOps, tool \in BOOLEAN :
        /\ LockThr(t).pc = "idle"
        /\ tool => op = "get_track" /\ ~LockThr(t).outer
        /\ LockSet(t, [LockThr(t) EXCEPT !.pc = "start", !.op = op, !.tool = tool])
        /\ UNCHANGED <<connected, lock, objs, tracks, markers, transport, session,
                       held, lastCall, lastFb, prior, journal, srv, meter_cache>>

LockAcquire(t) ==
    /\ LockThr(t).pc = "start"
    /\ rlock_acquire(t)
    /\ lock' = [lock EXCEPT !.owner = t, !.count = @ + 1]
    /\ LockSet(t, [LockThr(t) EXCEPT !.pc = "locked"])
    /\ UNCHANGED <<connected, objs, tracks, markers, transport, session, held,
                   lastCall, lastFb, prior, journal, srv, meter_cache>>

LockRun(t) ==
    /\ LockThr(t).pc = "locked"
    /\ SetCache(LockBody(LockThr(t).op), held)
    /\ LockSet(t, [LockThr(t) EXCEPT !.pc = "unlock"])
    /\ lastCall' = Called(LockThr(t).op, <<t>>)
    /\ UNCHANGED <<connected, lock, lastFb, prior, journal, srv, meter_cache>>

LockRelease(t) ==
    /\ LockThr(t).pc = "unlock"
    /\ lock.owner = t
    /\ lock' = [lock EXCEPT !.count = @ - 1,
                            !.owner = IF lock.count = 1 THEN NoOwner ELSE t]
    /\ LockSet(t, [LockThr(t) EXCEPT !.pc = IF LockThr(t).tool THEN "send" ELSE "idle",
                                     !.op = IF LockThr(t).tool THEN @ ELSE "none"])
    /\ UNCHANGED <<connected, objs, tracks, markers, transport, session, held,
                   lastCall, lastFb, prior, journal, srv, meter_cache>>

\* self.osc.send_command(...) of the facade operation, after get_track returned
LockSend(t) ==
    /\ LockThr(t).pc = "send"
    /\ LockSet(t, LockIdle)
    /\ lastCall' = Called("send", <<t>>)
    /\ UNCHANGED <<connected, lock, objs, tracks, markers, transport, session,
                   held, lastFb, prior, journal, srv, meter_cache>>

\* a caller takes the lock itself (with state._lock:) around its calls
OuterAcquire(t) ==
    /\ LockThr(t).pc = "idle" /\ ~LockThr(t).outer
    /\ rlock_acquire(t)
    /\ lock' = [lock EXCEPT !.owner = t, !.count = @ + 1]
    /\ LockSet(t, [LockThr(t) EXCEPT !.outer = TRUE])
    /\ UNCHANGED <<connected, objs, tracks, markers, transport, session, held,
                   lastCall, lastFb, prior, journal, srv, meter_cache>>

OuterRelease(t) ==
    /\ LockThr(t).pc = "idle" /\ LockThr(t).outer
    /\ lock.owner = t
    /\ lock' = [lock EXCEPT !.count = @ - 1,
                            !.owner = IF lock.count = 1 THEN NoOwner ELSE t]
    /\ LockSet(t, [LockThr(t) EXCEPT !.outer = FALSE])
    /\ UNCHANGED <<connected, objs, tracks, markers, transport, session, held,
                   lastCall, lastFb, prior, journal, srv, meter_cache>>

NextLock ==
    \/ \E t \in Threads : LockCall(t)
    \/ \E t \in Threads : LockAcquire(t)
    \/ \E t \in Threads : LockRun(t)
    \/ \E t \in Threads : LockRelease(t)
    \/ \E t \in Threads : LockSend(t)
    \/ \E t \in Threads : OuterAcquire(t)
    \/ \E t \in Threads : OuterRelease(t)

SpecLock == Init /\ [][NextLock]_vars


(***************************************************************************)
(* The feedback router of the bridge.  register_feedback_handler in src/   *)
(* is a stub that only logs; the table is the one the specification        *)
(* describes: one handler per address, an assignment per registration.     *)
(* srv.handlers[a] is the sequence of handlers a message for a is handed   *)
(* to; srv.regs[a] is the history of the registrations made for a, and     *)
(* srv.invoked the handlers the last message invoked, in order.            *)
(***************************************************************************)
MaxRegs == 2

Handlers == {"h1", "h2"}

\* a dispatcher that adds the handler to those already mapped to the address
register_feedback_handler_append(address, handler) ==
    [srv.handlers EXCEPT ![address] = Append(@, handler)]

register_feedback_handler(address, handler) ==
    [srv.handlers EXCEPT ![address] = <<handler>>]

Register ==
    \E a \in Addresses, h \in Handlers :
        /\ Len(srv.regs[a]) < MaxRegs
        /\ srv' = [srv EXCEPT !.handlers = register_feedback_handler(a, h),
                              !.regs[a] = Append(@, h)]
        /\ lastCall' = Called("register_feedback_handler", <<a, h>>)
        /\ UNCHANGED <<connected, lock, objs, tracks, markers, transport, session,
                       held, lastFb, thr, prior, journal, meter_cache>>

\* a decoded message is looked up by its exact address; an address without
\* a handler is dropped
Deliver ==
    \E a \in Addresses \cup {"/unknown"} :
        /\ srv' = [srv EXCEPT !.invoked = IF a \in Addresses THEN srv.handlers[a]
                                          ELSE <<>>]
        /\ lastCall' = Called("deliver", <<a>>)
        /\ UNCHANGED <<connected, lock, objs, tracks, markers, transport, session,
                       held, lastFb, thr, prior, journal, meter_cache>>

NextRouter ==
    \/ Register
    \/ Deliver

SpecRouter == Init /\ [][NextRouter]_vars


(***************************************************************************)
(* Phase correlation (tools/metering.py).  Correlations are scaled         *)
(* integers in 1/100000, so -0.5 is -50000 and -0.50001 is -50001.  The    *)
(* meter cache is written by _on_strip_meter, which stores peak and rms    *)
(* values and no correlation; a correlation is in the cache only when      *)
(* whoever holds the MeteringTools object has put it there.                *)
(***************************************************************************)
PhaseThreshold == -50000
DefaultCorrelation == 100000

PhaseInputs == {-100000, -50001, -50000, -49999, NaN}

\* the comparison turned into <=
get_phase_correlation_inclusive(track_id) ==
    IF ~has_track(track_id)
    THEN [success |-> FALSE, error |-> "Track not found",
          correlation |-> 0, phase_issue |-> FALSE]
    ELSE LET meter_data  == meter_cache[track_id]
             correlation == IF meter_data.present /\ meter_data.has_correlation
                            THEN meter_data.correlation ELSE DefaultCorrelation
         IN  [success |-> TRUE, error |-> "", correlation |-> correlation,
              phase_issue |-> LeF(correlation, PhaseThreshold)]

get_phase_correlation(track_id) ==
    IF ~has_track(track_id)
    THEN [success |-> FALSE, error |-> "Track not found",
          correlation |-> 0, phase_issue |-> FALSE]
    ELSE LET meter_data  == meter_cache[track_id]
             correlation == IF meter_data.present /\ meter_data.has_correlation
                            THEN meter_data.correlation ELSE DefaultCorrelation
         IN  [success |-> TRUE, error |-> "", correlation |-> correlation,
              phase_issue |-> LtF(correlation, PhaseThreshold)]

\* self._meter_cache[strip_id] = {"peak_db": ..., "rms_db": ..., "timestamp": ...}
on_strip_meter(args) ==
    IF Len(args) >= 5
    THEN [meter_cache EXCEPT ![args[1]] = [NoMeter EXCEPT !.present = TRUE]]
    ELSE meter_cache

StripMeter ==
    \E k \in {1, MaxStrip}, n \in {4, 5} :
        /\ meter_cache' = on_strip_meter([i \in 1..n |-> IF i = 1 THEN k ELSE 0])
        /\ lastCall' = Called("_on_strip_meter", <<k, n>>)
        /\ UNCHANGED <<connected, lock, objs, tracks, markers, transport, session,
                       held, lastFb, thr, prior, journal, srv>>

\* metering_tools._meter_cache[k] = {"correlation": c}
PutCorrelation ==
    \E k \in {1, MaxStrip}, c \in PhaseInputs :
        /\ meter_cache' = [meter_cache EXCEPT
                              ![k] = [present |-> TRUE, has_correlation |-> TRUE,
                                      correlation |-> c]]
        /\ lastCall' = Called("put_correlation", <<k, c>>)
        /\ UNCHANGED <<connected, lock, objs, tracks, markers, transport, session,
                       held, lastFb, thr, prior, journal, srv>>

PhaseCall ==
    \E k \in StripIds :
        LET r == get_phase_correlation(k)
        IN  /\ lastCall' = [op |-> "get_phase_correlation", args |-> <<k>>,
                            conn |-> connected, success |-> r.success,
                            error |-> r.error, sent |-> <<>>, fb |-> <<>>,
                            correlation |-> r.correlation,
                            phase_issue |-> r.phase_issue]
            /\ UNCHANGED <<connected, lock, objs, tracks, markers, transport, session,
                           held, lastFb, thr, prior, journal, srv, meter_cache>>

NextPhase ==
    \/ UpdateTrack
    \/ StripMeter
    \/ PutCorrelation
    \/ PhaseCall

SpecPhase == Init /\ [][NextPhase]_vars


(***************************************************************************)
(* A formatting read next to a multi-field update of the same track.       *)
(* get_track_mixer_state calls get_track, which returns the cached record  *)
(* itself once the lock is released, and then reads the record's fields    *)
(* one after the other with no lock held (mixer.py:679-694); list_tracks   *)
(* does the same on the records of get_all_tracks.  The writer is          *)
(* update_track(1, gain_db=-6.0, pan=0.3) on the receive thread, its       *)
(* setattr loop inside the lock.  thr.r is the reader: position, the       *)
(* record it holds, the fields still to read and the values read so far.   *)
(***************************************************************************)
ReadKw == << <<"gain_db", -6000>>, <<"pan", 300>> >>

ReadFields == <<"gain_db", "pan", "muted">>

ReadSpawn ==
    /\ ~Running /\ has_track(1)
    /\ thr' = [w |-> [pc |-> "start", kw |-> ReadKw],
               r |-> [pc |-> "start", ref |-> NoRef, left |-> ReadFields, got |-> <<>>]]
    /\ prior' = track_of(1)
    /\ lastCall' = Called("spawn", <<>>)
    /\ UNCHANGED <<connected, lock, objs, tracks, markers, transport, session, held,
                   lastFb, journal, srv, meter_cache>>

WriterAcquire ==
    /\ Running /\ thr.w.pc = "start"
    /\ lock.owner = NoOwner
    /\ lock' = [lock EXCEPT !.owner = 1, !.count = 1]
    /\ thr' = [thr EXCEPT !.w.pc = "loop"]
    /\ UNCHANGED <<connected, objs, tracks, markers, transport, session, held,
                   lastCall, lastFb, prior, journal, srv, meter_cache>>

\* setattr(track, key, value), one key of kwargs per step
WriterSetAttr ==
    /\ Running /\ thr.w.pc = "loop" /\ Len(thr.w.kw) > 0
    /\ LET ref == get_track(1)
           kv  == Head(thr.w.kw)
       IN  SetCache([CacheNow EXCEPT
                        !.objs = [objs EXCEPT ![ref] = setattr_track(@, kv[1], kv[2])]],
                    held)
    /\ thr' = [thr EXCEPT !.w.kw = Tail(@)]
    /\ UNCHANGED <<connected, lock, lastCall, lastFb, prior, journal, srv, meter_cache>>

WriterRelease ==
    /\ Running /\ thr.w.pc = "loop" /\ Len(thr.w.kw) = 0
    /\ lock' = [lock EXCEPT !.owner = NoOwner, !.count = 0]
    /\ thr' = [thr EXCEPT !.w.pc = "done"]
    /\ UNCHANGED <<connected, objs, tracks, markers, transport, session, held,
                   lastCall, lastFb, prior, journal, srv, meter_cache>>

\* track = self.state.get_track(track_id): the lock is taken and released
\* inside the call, which returns the record
ReaderGetTrack ==
    /\ Running /\ thr.r.pc = "start"
    /\ lock.owner = NoOwner
    /\ thr' = [thr EXCEPT !.r.pc = "read", !.r.ref = get_track(1)]
    /\ UNCHANGED <<connected, lock, objs, tracks, markers, transport, session, held,
                   lastCall, lastFb, prior, journal, srv, meter_cache>>

\* "gain_db": track.gain_db, "pan": track.pan, ...: one attribute per step
ReaderReadField ==
    /\ Running /\ thr.r.pc = "read" /\ Len(thr.r.left) > 0
    /\ LET f == Head(thr.r.left)
       IN  thr' = [thr EXCEPT
                      !.r.got = Append(@, <<f, objs[thr.r.ref][f]>>),
                      !.r.left = Tail(@),
                      !.r.pc = IF Len(thr.r.left) = 1 THEN "done" ELSE "read"]
    /\ UNCHANGED <<connected, lock, objs, tracks, markers, transport, session, held,
                   lastCall, lastFb, prior, journal, srv, meter_cache>>

NextRead ==
    \/ Populate
    \/ ReadSpawn
    \/ WriterAcquire
    \/ WriterSetAttr
    \/ WriterRelease
    \/ ReaderGetTrack
    \/ ReaderReadField

SpecRead == Init /\ [][NextRead]_vars


(***************************************************************************)
(* Toggles in succession.  toggle_track_mute reads the cached muted value  *)
(* and sends its negation; the write changes nothing in the cache, which   *)
(* follows only feedback.  prior holds the last toggle_track_mute that     *)
(* sent, for as long as no /strip/mute feedback for its track has been     *)
(* processed and the cache has not been cleared since; n is 2 when the     *)
(* toggle before it was such a toggle of the same track.                   *)
(***************************************************************************)
StaleMsgs ==
    << [address |-> "/strip/mute", args |-> <<1, 1>>],
       [address |-> "/strip/mute", args |-> <<1, 0>>],
       [address |-> "/strip/mute", args |-> <<MaxStrip, 1>>],
       [address |-> "/strip/solo", args |-> <<1, 1>>] >>

StaleFeedback ==
    \E i \in DOMAIN StaleMsgs :
        /\ Idle
        /\ FeedbackFits(StaleMsgs[i])
        /\ SetCache(on_feedback(StaleMsgs[i].address, StaleMsgs[i].args), held)
        /\ lastCall' = NoCall
        /\ lastFb' = NextFb(StaleMsgs[i])
        /\ prior' = IF /\ prior # <<>>
                       /\ StaleMsgs[i].address = "/strip/mute"
                       /\ StaleMsgs[i].args[1] = prior[1].track_id
                    THEN <<>> ELSE prior
        /\ UNCHANGED <<connected, lock, thr, journal, srv, meter_cache>>

StaleClear ==
    /\ Idle
    /\ Clear
    /\ prior' = <<>>

\* a toggle whose accepted send is written to the cache at once
ToggleMute_optimistic ==
    \E track_id \in StripIds, refused \in SendOutcomes :
        LET r == toggle_track_mute(track_id, refused, 0)
        IN  /\ Idle
            /\ lastCall' = Result("toggle_track_mute", Args(<<track_id>>, <<>>), r)
            /\ prior' = IF Len(r.sent) = 1
                        THEN <<[track_id |-> track_id, value |-> r.sent[1].args[2],
                                n |-> IF prior # <<>> /\ prior[1].track_id = track_id
                                      THEN 2 ELSE 1]>>
                        ELSE prior
            /\ IF r.success
               THEN LET u == update_track(track_id,
                                 << <<"muted", r.sent[1].args[2] = 1>> >>)
                    IN  SetCache([CacheNow EXCEPT !.objs = u.objs, !.tracks = u.tracks],
                                 held)
               ELSE UNCHANGED <<objs, tracks, markers, transport, session, held>>
            /\ UNCHANGED <<connected, lock, lastFb, thr, journal, srv, meter_cache>>

ToggleMute ==
    \E track_id \in StripIds, refused \in SendOutcomes :
        LET r == toggle_track_mute(track_id, refused, 0)
        IN  /\ Idle
            /\ lastCall' = Result("toggle_track_mute", Args(<<track_id>>, <<>>), r)
            /\ prior' = IF Len(r.sent) = 1
                        THEN <<[track_id |-> track_id, value |-> r.sent[1].args[2],
                                n |-> IF prior # <<>> /\ prior[1].track_id = track_id
                                      THEN 2 ELSE 1]>>
                        ELSE prior
            /\ UNCHANGED <<connected, lock, objs, tracks, markers, transport, session,
                           held, lastFb, thr, journal, srv, meter_cache>>

NextStale ==
    \/ Connect
    \/ Disconnect
    \/ StaleFeedback
    \/ StaleClear
    \/ ToggleMute
    \/ Reply

SpecStale == Init /\ [][NextStale]_vars


(***************************************************************************)
(* update_track called with a keyword named strip_id.  The method's        *)
(* signature is update_track(self, strip_id, **kwargs): a keyword          *)
(* strip_id collides with the positional parameter and the call raises     *)
(* TypeError when the arguments are bound, before the body runs.           *)
(***************************************************************************)
\* a call whose strip_id keyword reaches the setattr loop
UpdateTrackStripId_unbound ==
    \E s \in StripIds, v \in StripIds :
        /\ CanUpdate(s)
        /\ LET u == update_track(s, << <<"strip_id", v>> >>)
           IN  SetCache([CacheNow EXCEPT !.objs = u.objs, !.tracks = u.tracks], held)
        /\ lastCall' = Called("update_track", <<s, "strip_id", v>>)
        /\ UNCHANGED <<connected, lock, lastFb, thr, prior, journal, srv, meter_cache>>

UpdateTrackStripId ==
    \E s \in StripIds, v \in StripIds :
        /\ lastCall' = [Called("update_track", <<s, "strip_id", v>>)
                           EXCEPT !.error = "TypeError"]
        /\ UNCHANGED <<connected, lock, objs, tracks, markers, transport, session,
                       held, lastFb, thr, prior, journal, srv, meter_cache>>

NextKey ==
    \/ UpdateTrackCall
    \/ UpdateTrackStripId
    \/ FeedbackCall
    \/ Clear

SpecKey == Init /\ [][NextKey]_vars


(***************************************************************************)
(* ArdourMCPServer.start and stop (server.py:61-101).  start awaits the    *)
(* bridge's connect inside try/except, logging and re-raising what it      *)
(* raises and ignoring what it returns; it then calls                      *)
(* state.register_feedback_handlers(bridge) and self._register_tools().    *)
(* stop awaits the bridge's disconnect and then calls state.clear(), with  *)
(* no try around the disconnect.  The bridge's connect and disconnect are  *)
(* the environment's: connect returns True or False (the stub in src/      *)
(* always returns False) or raises; disconnect returns or raises.          *)
(* srv.steps lists the calls start made, in order.                         *)
(***************************************************************************)
ConnectOutcomes == {"True", "False", "raises"}

StateHandlers == [a \in Addresses |-> <<"state">>]

\* a start that registers the handlers and the tools before it connects
Start_register_first ==
    \E outcome \in ConnectOutcomes :
        /\ Idle
        /\ connected' = (outcome = "True")
        /\ srv' = [srv EXCEPT
                      !.handlers = StateHandlers,
                      !.tools = TRUE,
                      !.steps = <<"register_feedback_handlers", "_register_tools",
                                  "connect">>]
        /\ lastCall' = [Called("start", <<outcome>>) EXCEPT
                           !.success = outcome # "raises",
                           !.error = IF outcome = "raises" THEN "Exception" ELSE ""]
        /\ UNCHANGED <<lock, objs, tracks, markers, transport, session, held, lastFb,
                       thr, prior, journal, meter_cache>>

Start ==
    \E outcome \in ConnectOutcomes :
        /\ Idle
        /\ connected' = (outcome = "True")
        /\ srv' = IF outcome = "raises"
                  THEN [srv EXCEPT !.steps = <<"connect">>]
                  ELSE [srv EXCEPT
                           !.handlers = StateHandlers,
                           !.tools = TRUE,
                           !.steps = <<"connect", "register_feedback_handlers",
                                       "_register_tools">>]
        /\ lastCall' = [Called("start", <<outcome>>) EXCEPT
                           !.success = outcome # "raises",
                           !.error = IF outcome = "raises" THEN "Exception" ELSE ""]
        /\ UNCHANGED <<lock, objs, tracks, markers, transport, session, held, lastFb,
                       thr, prior, journal, meter_cache>>

\* stop() when the bridge's disconnect raises: the exception leaves stop at
\* the await, state.clear() is not reached; whether the bridge still counts
\* as connected is the bridge's matter
StopRaises ==
    \E still \in BOOLEAN :
        /\ Idle
        /\ connected' = (connected /\ still)
        /\ lastCall' = [Called("stop", StopArgs) EXCEPT !.error = "RuntimeError"]
        /\ UNCHANGED <<lock, objs, tracks, markers, transport, session, held, lastFb,
                       thr, prior, journal, srv, meter_cache>>

NextStart ==
    \/ Start
    \/ Stop
    \/ StopRaises
    \/ CacheFeedback
    \/ UpdateTrack

SpecStart == Init /\ [][NextStart]_vars


(***************************************************************************)
(* rename_marker against a cache that can hold two markers of one name at  *)
(* different positions: the marker sequence is a list of (name, position)  *)
(* pairs with no uniqueness of names (ardour_state.py:52).                 *)
(***************************************************************************)
MaxNamed == 2

NamedMarkers == { <<"Verse", 96000>>, <<"Verse", 48000>>, <<"Bridge", 0>> }

RenameInputs == {Args(<<>>, <<s, t>>) : s \in {"Verse", "Bridge", " "}, t \in {"Chorus", ""}}

RenameAppend ==
    \E m \in NamedMarkers :
        /\ Idle
        /\ Len(markers) < MaxNamed
        /\ SetCache([CacheNow EXCEPT !.markers = Append(markers, m)], held)
        /\ lastCall' = NoCall
        /\ UNCHANGED <<connected, lock, lastFb, thr, prior, journal, srv, meter_cache>>

RenameCall ==
    \E refused \in SendOutcomes, a \in RenameInputs :
        Idle /\ Return("rename_marker", a, rename_marker(a.s[1], a.s[2], refused, 0))

NextRename ==
    \/ Connect
    \/ Disconnect
    \/ RenameAppend
    \/ RenameCall
    \/ Reply

SpecRename == Init /\ [][NextRename]_vars


(***************************************************************************)
(* mute_all_tracks with the counts of its result (mixer.py:492-528):       *)
(* total_tracks is the size of the snapshot get_all_tracks() returned,     *)
(* tracks_muted counts the set_track_mute calls that succeeded and         *)
(* failed_tracks lists the others.  The coroutine awaits only              *)
(* set_track_mute, which does not suspend, so the loop runs as one step.   *)
(* The tracks come into the cache by feedback between calls.               *)
(***************************************************************************)
MuteAllCall ==
    \E refused \in SendOutcomes :
        LET r    == mute_all_tracks(refused, 0)
            each == IF is_connected
                    THEN ForEachTrack("muted", TrackIds, TRUE, refused, 0)
                    ELSE [sent |-> <<>>, failed |-> <<>>, count |-> 0]
        IN  /\ Idle
            /\ lastCall' = [op |-> "mute_all_tracks", args |-> Args(<<>>, <<>>),
                            conn |-> connected, success |-> r.success,
                            error |-> r.error, sent |-> r.sent, fb |-> <<>>,
                            tracks_muted |-> each.count,
                            total_tracks |-> IF is_connected THEN Len(TrackIds) ELSE 0,
                            failed_tracks |-> each.failed]
            /\ UNCHANGED <<connected, lock, objs, tracks, markers, transport, session,
                           held, lastFb, thr, prior, journal, srv, meter_cache>>

NextMuteAll ==
    \/ Connect
    \/ Disconnect
    \/ FacadeFeedback
    \/ MuteAllCall
    \/ Reply

SpecMuteAll == Init /\ [][NextMuteAll]_vars


(***************************************************************************)
(* Feedback for three fields of one strip, applied in each of the six      *)
(* orders from the same cache state (tests/test_osc_bridge_integration.py  *)
(* 194-214, 308-318).  Each handler hands its one field to update_track.   *)
(* thr holds the run: the strip, the order chosen and how many messages    *)
(* have been applied; prior holds the track's record when the run began.   *)
(***************************************************************************)
CommuteOrders ==
    { <<1, 2, 3>>, <<1, 3, 2>>, <<2, 1, 3>>, <<2, 3, 1>>, <<3, 1, 2>>, <<3, 2, 1>> }

CommuteMsg(strip_id, i, mute) ==
    CASE i = 1 -> [address |-> "/strip/name", args |-> <<strip_id, "Track">>]
      [] i = 2 -> [address |-> "/strip/gain", args |-> <<strip_id, -6000>>]
      [] i = 3 -> [address |-> "/strip/mute", args |-> <<strip_id, mute>>]

CommuteBegin ==
    \E k \in {1, MaxStrip}, order \in CommuteOrders, mute \in {0, 1} :
        /\ ~Running
        /\ CanUpdate(k)
        /\ thr' = [strip |-> k, order |-> order, mute |-> mute, done |-> 0]
        /\ prior' = IF has_track(k) THEN track_of(k) ELSE NoObj
        /\ lastCall' = NoCall
        /\ UNCHANGED <<connected, lock, objs, tracks, markers, transport, session, held,
                       lastFb, journal, srv, meter_cache>>

CommuteApply ==
    /\ Running /\ thr.done < 3
    /\ LET m == CommuteMsg(thr.strip, thr.order[thr.done + 1], thr.mute)
       IN  /\ SetCache(on_feedback(m.address, m.args), held)
           /\ lastFb' = NextFb(m)
    /\ thr' = [thr EXCEPT !.done = @ + 1]
    /\ UNCHANGED <<connected, lock, lastCall, prior, journal, srv, meter_cache>>

CommuteEnd ==
    /\ Running /\ thr.done = 3
    /\ thr' = <<>>
    /\ prior' = <<>>
    /\ UNCHANGED <<connected, lock, objs, tracks, markers, transport, session, held,
                   lastCall, lastFb, journal, srv, meter_cache>>

CommuteClear == ~Running /\ Clear

NextCommute ==
    \/ Populate
    \/ CommuteClear
    \/ CommuteBegin
    \/ CommuteApply
    \/ CommuteEnd

SpecCommute == Init /\ [][NextCommute]_vars


(***************************************************************************)
(* C8: from any reachable cache state, clear() resets every field of the   *)
(* session state to its default (no tracks, no markers, default transport, *)
(* default name, path, sample rate and dirty flag) and leaves the lock     *)
(* the same object as before the call.                                     *)
(***************************************************************************)
C8_ClearResetsAll ==
    [][lastCall'.op = "clear" =>
          /\ \A k \in StripIds : ~has_track(k)'
          /\ markers' = <<>>
          /\ transport' = TransportState
          /\ session' = SessionFields
          /\ lock' = lock]_vars

\* clear() has run on a cache that held tracks and markers
C8_Witness ==
    /\ lastCall.op = "clear"
    /\ lastCall.args[1] > 0
    /\ lastCall.args[2] > 0
    /\ \A k \in StripIds : ~has_track(k)
    /\ transport = TransportState


(***************************************************************************)
(* C10 as claimed: get_all_tracks() returns a private copy, so that no     *)
(* mutation performed on the returned value (entries inserted, removed or  *)
(* replaced, or a field changed on a track record reached through it)      *)
(* changes what a later cache read returns.                                *)
(***************************************************************************)
HeldMutations == {"held_insert", "held_remove", "held_replace", "held_set"}

C10_Original ==
    [][lastCall'.op \in HeldMutations => View' = View]_vars

(***************************************************************************)
(* C10 as amended: get_all_tracks() returns a new mapping that holds the   *)
(* cache's own track records.  Inserting, removing or replacing entries of *)
(* the returned mapping changes no later cache read; changing a field of a *)
(* record reached through it changes what the cache returns for every      *)
(* strip_id still bound to that record, and nothing else.                  *)
(***************************************************************************)
C10_ShallowCopy ==
    [][/\ lastCall'.op \in HeldMutations \ {"held_set"} => View' = View
       /\ lastCall'.op = "held_set" =>
            \A k \in StripIds :
                /\ tracks'[k] = tracks[k]
                /\ IF has_track(k) /\ tracks[k] = held.map[lastCall'.args[1]]
                   THEN View'[k] = [View[k] EXCEPT !.muted = TRUE]
                   ELSE View'[k] = View[k]]_vars

\* a caller has changed a field of a record of the returned mapping and the
\* cache shows the change; before that the caller had changed the entries
C10_Witness ==
    /\ lastCall.op = "held_set"
    /\ \E k \in StripIds :
          /\ has_track(k)
          /\ held.map[k] = tracks[k]
          /\ track_of(k).muted
    /\ \E k \in StripIds : held.map[k] # tracks[k]


(***************************************************************************)
(* C9: for every interleaving of update_track(1, gain_db=-6.0) and         *)
(* update_track(2, pan=0.3) issued by two concurrent callers, once both    *)
(* have returned both tracks exist, track 1 has gain_db -6.0, track 2 has  *)
(* pan 0.3, and every other field of each record holds the value it had    *)
(* before the calls (its default if the record did not exist).  While the  *)
(* calls run, at most one caller is inside the locked region.              *)
(***************************************************************************)
PriorTrack(k) == IF prior[k] = NoObj THEN TrackState(k) ELSE prior[k]

BothDone == Running /\ \A t \in Threads : thr[t].pc = "done"

InLocked(t) == thr[t].pc \in {"locked", "loop", "unlock"}

C9_ConcurrentUpdates ==
    /\ BothDone =>
          /\ has_track(1) /\ has_track(2)
          /\ track_of(1) = [PriorTrack(1) EXCEPT !.gain_db = -6000]
          /\ track_of(2) = [PriorTrack(2) EXCEPT !.pan = 300]
          /\ \A k \in StripIds \ {1, 2} : View[k] = prior[k]
    /\ Running => \A t, u \in Threads : InLocked(t) /\ InLocked(u) => t = u

\* both callers have returned; one record existed before with a field off its
\* default and the other was created by the call
C9_Witness ==
    /\ BothDone
    /\ \E k \in {1, 2} : prior[k] # NoObj /\ prior[k].muted
    /\ \E k \in {1, 2} : prior[k] = NoObj
    /\ track_of(1).gain_db = -6000
    /\ track_of(2).pan = 300


(***************************************************************************)
(* Facade calls: the step that issues a call and records its result.       *)
(***************************************************************************)
CallStep == Idle /\ lastCall'.op \in WriteOps

OutsideRange(v, lo, hi) == v = NaN \/ v < lo \/ v > hi

(***************************************************************************)
(* C1 as claimed: for every gain value outside [-193.0, 6.0],              *)
(* set_track_volume returns a validation-error result and the transport's  *)
(* send is never invoked by that call.                                     *)
(***************************************************************************)
C1_Original ==
    lastCall.op = "set_track_volume" /\ OutsideRange(lastCall.args.n[2], GainMin, GainMax)
        => /\ ~lastCall.success
           /\ lastCall.error = "Volume out of range (-193.0 to +6.0)"
           /\ lastCall.sent = <<>>

(***************************************************************************)
(* C1 as amended: for every gain value outside [-193.0, 6.0],              *)
(* set_track_volume hands nothing to send and returns a failure: the       *)
(* out-of-range validation error when the bridge is connected, the         *)
(* not-connected error when it is not (the connection is tested first).    *)
(***************************************************************************)
C1_GainRejected ==
    lastCall.op = "set_track_volume" /\ OutsideRange(lastCall.args.n[2], GainMin, GainMax)
        => /\ ~lastCall.success
           /\ lastCall.sent = <<>>
           /\ lastCall.error = IF lastCall.conn
                               THEN "Volume out of range (-193.0 to +6.0)"
                               ELSE "Not connected to Ardour"

\* connected, the track cached, a gain just above the range: rejected unsent
C1_Witness ==
    /\ lastCall.op = "set_track_volume"
    /\ lastCall.conn
    /\ has_track(lastCall.args.n[1])
    /\ lastCall.args.n[2] = GainMax + 1
    /\ lastCall.error = "Volume out of range (-193.0 to +6.0)"
    /\ lastCall.sent = <<>>

(***************************************************************************)
(* C2 as claimed: for every pan value outside [-1.0, 1.0], set_track_pan   *)
(* returns a validation-error result and the transport's send is never     *)
(* invoked by that call.                                                   *)
(***************************************************************************)
C2_Original ==
    lastCall.op = "set_track_pan" /\ OutsideRange(lastCall.args.n[2], PanMin, PanMax)
        => /\ ~lastCall.success
           /\ lastCall.error = "Pan out of range (-1.0 to +1.0)"
           /\ lastCall.sent = <<>>

(***************************************************************************)
(* C2 as amended: for every pan value outside [-1.0, 1.0], set_track_pan   *)
(* hands nothing to send and returns a failure: the out-of-range           *)
(* validation error when the bridge is connected, the not-connected error  *)
(* when it is not.                                                         *)
(***************************************************************************)
C2_PanRejected ==
    lastCall.op = "set_track_pan" /\ OutsideRange(lastCall.args.n[2], PanMin, PanMax)
        => /\ ~lastCall.success
           /\ lastCall.sent = <<>>
           /\ lastCall.error = IF lastCall.conn
                               THEN "Pan out of range (-1.0 to +1.0)"
                               ELSE "Not connected to Ardour"

\* connected, the track cached, a pan just below the range: rejected unsent
C2_Witness ==
    /\ lastCall.op = "set_track_pan"
    /\ lastCall.conn
    /\ has_track(lastCall.args.n[1])
    /\ lastCall.args.n[2] = PanMin - 1
    /\ lastCall.error = "Pan out of range (-1.0 to +1.0)"
    /\ lastCall.sent = <<>>

(***************************************************************************)
(* C3: whenever is_connected() is false when a write operation is called,  *)
(* the operation returns a failure result reporting 'not connected' and    *)
(* send is never invoked, for every write operation of every tool class.   *)
(***************************************************************************)
C3_NotConnected ==
    lastCall.op \in WriteOps /\ ~lastCall.conn
        => /\ ~lastCall.success
           /\ lastCall.error = "Not connected to Ardour"
           /\ lastCall.sent = <<>>


(***************************************************************************)
(* C4: in every write operation, including those that send more than one   *)
(* command (create_marker with a position, rename_marker, set_punch_range, *)
(* set_monitoring_mode, set_automation_mode), every validation check comes *)
(* before the first send: a call that returns a validation error has sent  *)
(* nothing and has left the cache unchanged.  For the five operations      *)
(* named, an input that fails one of the operation's checks leads to no    *)
(* send at all.                                                            *)
(***************************************************************************)
ValidationErrors ==
    {"Volume out of range (-193.0 to +6.0)", "Pan out of range (-1.0 to +1.0)",
     "Track not found", "Track ID must be positive (1-based)",
     "Track name cannot be empty", "Already recording",
     "Invalid start_frame (must be >= 0)", "Invalid end_frame (must be >= 0)",
     "Invalid range: start_frame must be < end_frame",
     "Invalid mode. Must be 'input', 'disk', or 'auto'",
     "Marker name cannot be empty", "Position must be non-negative",
     "Old marker name cannot be empty", "New marker name cannot be empty",
     "Marker not found", "Frame values must be non-negative",
     "End frame must be after start frame", "Tempo out of range (20.0 to 300.0)",
     "Numerator out of range (1 to 32)",
     "Denominator must be one of [1, 2, 4, 8, 16, 32]",
     "Timecode components must be non-negative", "Minutes must be 0-59",
     "Seconds must be 0-59", "Bar number must be positive (1-based)",
     "Seconds must be non-negative", "Invalid mode", "Invalid parameter",
     "Send level out of range (-193.0 to +6.0)", "Send ID invalid (must be >= 0)",
     "Plugin ID invalid (must be >= 0)", "Parameter ID invalid (must be >= 0)"}

Blank(name) == name \in {"", " "}

\* the call's input fails a check of the operation, judged on the input and
\* on the cache the call reads
InvalidInput(op, a) ==
    CASE op = "create_marker" ->
            Blank(a.s[1]) \/ (a.n[1] # NoPosition /\ a.n[1] < 0)
      [] op = "rename_marker" ->
            Blank(a.s[1]) \/ Blank(a.s[2])
                \/ ~\E i \in DOMAIN markers : markers[i][1] = a.s[1]
      [] op = "set_punch_range" -> a.n[1] < 0 \/ a.n[2] < 0 \/ a.n[1] >= a.n[2]
      [] op = "set_monitoring_mode" ->
            a.s[1] \notin {"Input", "input", "disk", "auto"} \/ ~has_track(a.n[1])
      [] op = "set_automation_mode" ->
            \/ a.s[1] \notin {"Gain", "gain", "pan", "mute", "plugin"}
            \/ a.s[2] \notin {"Write"} \cup AutomationModes
            \/ ~has_track(a.n[1])
      [] OTHER -> FALSE

C4_ValidateBeforeSend ==
    [][CallStep =>
          /\ cache' = cache
          /\ lastCall'.error \in ValidationErrors =>
                ~lastCall'.success /\ lastCall'.sent = <<>>
          /\ InvalidInput(lastCall'.op, lastCall'.args) =>
                ~lastCall'.success /\ lastCall'.sent = <<>>]_vars

\* connected, a punch range whose start is valid and whose end is not after it
C4_Witness ==
    /\ lastCall.op = "set_punch_range"
    /\ lastCall.conn
    /\ lastCall.args.n = <<96000, 0>>
    /\ lastCall.error = "Invalid range: start_frame must be < end_frame"
    /\ lastCall.sent = <<>>

(***************************************************************************)
(* C5 as claimed: every write operation that references a strip_id checks  *)
(* that the strip_id is present in the cache: if it is absent, the         *)
(* operation returns an error and sends no command.                        *)
(***************************************************************************)
StripOps ==
    (MixerOps \ {"mute_all_tracks", "unmute_all_tracks", "clear_all_solos"})
        \cup {"select_track", "rename_track", "set_input_monitoring",
              "set_disk_monitoring", "set_monitoring_mode"}
        \cup AutomationOps \cup AdvancedMixerOps

C5_Original ==
    [][CallStep /\ lastCall'.op \in StripOps /\ ~has_track(lastCall'.args.n[1])
          => ~lastCall'.success /\ lastCall'.sent = <<>>]_vars

(***************************************************************************)
(* C5 as amended: every write operation that references a strip_id, except *)
(* select_track and rename_track, checks that the strip_id is present in   *)
(* the cache: if it is absent the operation returns an error and sends no  *)
(* command.  select_track and rename_track do not check: when connected,   *)
(* given a track id of at least 1 (and, for rename_track, a non-blank      *)
(* name) that is absent from the cache, they send their one command.       *)
(***************************************************************************)
C5_TrackChecked ==
    [][CallStep /\ lastCall'.op \in StripOps /\ ~has_track(lastCall'.args.n[1]) =>
          IF lastCall'.op \in {"select_track", "rename_track"}
          THEN IF /\ connected
                  /\ lastCall'.args.n[1] >= 1
                  /\ lastCall'.op = "rename_track" => ~Blank(lastCall'.args.s[1])
               THEN Len(lastCall'.sent) = 1
               ELSE ~lastCall'.success /\ lastCall'.sent = <<>>
          ELSE ~lastCall'.success /\ lastCall'.sent = <<>>]_vars

\* connected, a pan in range for a strip that is not cached: refused unsent
C5_Witness ==
    /\ lastCall.op = "set_track_pan"
    /\ lastCall.conn
    /\ ~has_track(lastCall.args.n[1])
    /\ lastCall.args.n[2] = PanMax
    /\ lastCall.error = "Track not found"
    /\ lastCall.sent = <<>>

(***************************************************************************)
(* C6: after set_track_mute(id, true), processing feedback                 *)
(* /strip/mute [id, 1] makes get_track(id).muted true, and processing      *)
(* /strip/mute [id, 0] afterwards makes it false again: the cached value   *)
(* always equals the value of the last mute feedback processed for that    *)
(* id, independent of the write calls issued.                              *)
(***************************************************************************)
C6_MuteFollowsFeedback ==
    \A k \in StripIds :
        lastFb[k] # -1 => has_track(k) /\ (track_of(k).muted <=> lastFb[k] # 0)

\* set_track_mute(1, true) was accepted, then /strip/mute [1, 1] and then
\* /strip/mute [1, 0] were processed: the cache says not muted
C6_Witness ==
    /\ lastCall.op = "set_track_mute"
    /\ lastCall.success
    /\ lastCall.args.n = <<1, 1>>
    /\ Len(lastCall.fb) = 2
    /\ lastCall.fb[1] = [address |-> "/strip/mute", args |-> <<1, 1>>]
    /\ lastCall.fb[2] = [address |-> "/strip/mute", args |-> <<1, 0>>]
    /\ ~track_of(1).muted

(***************************************************************************)
(* C7: no write operation of the control facade changes any field of the   *)
(* cache: after a successful set (for example set_track_volume(id, v)), a  *)
(* read of the same field returns the pre-write value until feedback for   *)
(* that field has been processed.                                          *)
(***************************************************************************)
C7_WritesLeaveCache ==
    [][CallStep =>
          /\ View' = View
          /\ markers' = markers /\ transport' = transport /\ session' = session
          /\ \A k \in StripIds : get_track_mixer_state(k)' = get_track_mixer_state(k)]_vars

\* an accepted set_track_volume whose value the cache does not show
C7_Witness ==
    /\ lastCall.op = "set_track_volume"
    /\ lastCall.success
    /\ Len(lastCall.sent) = 1
    /\ has_track(lastCall.args.n[1])
    /\ get_track_mixer_state(lastCall.args.n[1]).gain_db # lastCall.args.n[2]

(***************************************************************************)
(* C11: after the sequence create marker "Verse" at frame 96000, delete    *)
(* marker "Verse", create marker "Verse" at frame 120000 (each call        *)
(* succeeding), get_marker_position("Verse") returns 120000.               *)
(***************************************************************************)
VerseScenario ==
    << [op |-> "create_marker", args |-> Args(<<96000>>, <<"Verse">>)],
       [op |-> "delete_marker", args |-> Args(<<>>, <<"Verse">>)],
       [op |-> "create_marker", args |-> Args(<<120000>>, <<"Verse">>)] >>

ScenarioDone ==
    /\ Len(journal) >= 3
    /\ SubSeq(journal, Len(journal) - 2, Len(journal)) = VerseScenario
    /\ lastCall.op = "create_marker" /\ lastCall.success

C11_RecreatedMarker ==
    ScenarioDone =>
        /\ get_marker_position("Verse").success
        /\ get_marker_position("Verse").position = 120000

(***************************************************************************)
(* C12: no write is ever retried: within one call of a write operation     *)
(* each command is handed to send at most once, and when a send is refused *)
(* the call returns a failure result without sending that command again.   *)
(***************************************************************************)
SentOnce(sent) == \A i, j \in DOMAIN sent : sent[i] = sent[j] => i = j

C12_NoRetry ==
    lastCall.op \in WriteOps => SentOnce(lastCall.sent)

(***************************************************************************)
(* C13: after the server's stop() has completed, get_track(id) returns     *)
(* nothing for every id (including ids that were cached before), the       *)
(* transport and session fields hold their defaults, the marker sequence   *)
(* is empty and the bridge is disconnected.                                *)
(***************************************************************************)
C13_StopClears ==
    [][lastCall'.op = "stop" =>
          /\ \A id \in 0..(MaxStrip + 1) : get_track(id)' = NoRef
          /\ transport' = TransportState
          /\ session' = SessionFields
          /\ markers' = <<>>
          /\ ~is_connected']_vars

\* stop() has run while connected on a cache that held tracks and a transport
\* state off its defaults
C13_Witness ==
    /\ lastCall.op = "stop"
    /\ lastCall.conn
    /\ lastCall.args[1] > 0
    /\ lastCall.args[3] = 1
    /\ \A id \in StripIds : get_track(id) = NoRef
    /\ transport = TransportState

C15_NeverRaises ==
    lastCall.op \in WriteOps =>
        /\ lastCall.error \notin Exceptions
        /\ Len(lastCall.sent) = 1 =>
              lastCall.success \/ lastCall.error \notin ValidationErrors

(***************************************************************************)
(* C16 as claimed: a toggle operation re-reads the cache immediately       *)
(* before toggling: the value it sends is the negation of the value held   *)
(* in the cache for that track at the moment of the send, also when        *)
(* feedback for that field is processed concurrently with the call.        *)
(***************************************************************************)
ToggleSent == Toggling /\ thr' = <<>> /\ Len(lastCall'.sent) = 1

C16_Original ==
    [][ToggleSent =>
          lastCall'.sent[1].args[2]
              = Flag(~track_of(thr[1].track_id)[ToggleField(thr[1].op)])]_vars

(***************************************************************************)
(* C16 as amended: a toggle operation reads the cache once, after its      *)
(* connection and track checks, and the value it sends is the negation of  *)
(* the value the cache held for that track at that read.  Feedback for the *)
(* field processed between the read and the send does not change the value *)
(* sent.                                                                   *)
(***************************************************************************)
C16_ToggleNegatesRead ==
    [][/\ ~Toggling /\ Toggling' =>
             thr'[1].seen = track_of(thr'[1].track_id)[ToggleField(thr'[1].op)]
       /\ ToggleSent =>
             lastCall'.sent[1].args[2] = Flag(~thr[1].seen)]_vars

\* toggle_track_solo read "not soloed", feedback then set soloed, and the
\* toggle sent 1: the value sent is the value the cache holds
C16_Witness ==
    /\ lastCall.op = "toggle_track_solo"
    /\ lastCall.success
    /\ lastCall.sent = <<Msg("/strip/solo", <<1, 1>>)>>
    /\ track_of(1).soloed

(***************************************************************************)
(* C17: each track boolean (muted, soloed, rec_enabled) is false when the  *)
(* track record is first created by an update that does not supply it, is  *)
(* always either true or false, and changes only when an update for that   *)
(* track supplies that field.                                              *)
(***************************************************************************)
TrackBooleans == {"muted", "soloed", "rec_enabled"}

\* the fields the call recorded in c supplies for strip k
Supplied(c, k) ==
    CASE c.op = "update_track" /\ c.args[1] = k ->
            {TrackKwargs[c.args[2]][j][1] : j \in DOMAIN TrackKwargs[c.args[2]]}
      [] c.op = "feedback" ->
            LET m == TrackMsgs[c.args[1]]
            IN  IF StripField(m.address) # "none" /\ Len(m.args) >= 2 /\ m.args[1] = k
                THEN {StripField(m.address)} ELSE {}
      [] OTHER -> {}

C17_TrackBooleans ==
    [][\A k \in StripIds, f \in TrackBooleans :
          /\ has_track(k)' => track_of(k)'[f] \in BOOLEAN
          /\ ~has_track(k) /\ has_track(k)' /\ f \notin Supplied(lastCall', k)
                => track_of(k)'[f] = FALSE
          /\ has_track(k) /\ has_track(k)' /\ track_of(k)'[f] # track_of(k)[f]
                => f \in Supplied(lastCall', k)]_vars

\* a record created by feedback for its solo flag: soloed, the other two false,
\* and later muted by an update that supplied only that field
C17_Witness ==
    /\ lastCall.op = "update_track"
    /\ lastCall.args = <<MaxStrip, 1>>
    /\ has_track(MaxStrip)
    /\ track_of(MaxStrip).muted
    /\ track_of(MaxStrip).soloed
    /\ ~track_of(MaxStrip).rec_enabled

(***************************************************************************)
(* C18: update_track(strip_id, fields) creates the record with default     *)
(* values if strip_id is absent and then changes only the supplied fields  *)
(* of that one record: every other field of that record, every other track *)
(* record, the transport state and the marker sequence are unchanged.      *)
(***************************************************************************)
SuppliedValue(kw, f) == kw[CHOOSE j \in DOMAIN kw : kw[j][1] = f][2]

C18_UpdateTrackFrame ==
    [][\A k \in StripIds, i \in DOMAIN TrackKwargs :
          lastCall'.op = "update_track" /\ lastCall'.args = <<k, i>> =>
              LET before == IF has_track(k) THEN track_of(k) ELSE TrackState(k)
              IN  /\ has_track(k)'
                  /\ \A f \in TrackFields :
                        track_of(k)'[f] = IF f \in Supplied(lastCall', k)
                                          THEN SuppliedValue(TrackKwargs[i], f)
                                          ELSE before[f]
                  /\ \A j \in StripIds \ {k} : View'[j] = View[j]
                  /\ transport' = transport
                  /\ markers' = markers
                  /\ session' = session]_vars

\* update_track(1, muted=False, gain_db=-6.0) on a record that was armed by
\* feedback, with another track, a marker and a transport position cached
C18_Witness ==
    /\ lastCall.op = "update_track"
    /\ lastCall.args = <<1, 3>>
    /\ track_of(1).gain_db = -6000
    /\ track_of(1).rec_enabled
    /\ has_track(MaxStrip) /\ track_of(MaxStrip).soloed
    /\ Len(markers) > 0
    /\ transport.frame = 96000

(***************************************************************************)
(* C19: a malformed feedback message (too few arguments for its address,   *)
(* e.g. /transport_frame [] or /strip/gain [1] or /time_signature [4]) is   *)
(* dropped by its handler: the cache after the message equals the cache    *)
(* before it (no field changed, no track record created).                  *)
(***************************************************************************)
MinArgs(address) ==
    IF address \in {"/strip/name", "/strip/gain", "/strip/pan_stereo_position",
                    "/strip/mute", "/strip/solo", "/strip/recenable",
                    "/time_signature"}
    THEN 2 ELSE 1

Malformed(m) == Len(m.args) < MinArgs(m.address)

C19_MalformedDropped ==
    [][\A i \in DOMAIN TrackMsgs :
          lastCall'.op = "feedback" /\ lastCall'.args = <<i>> /\ Malformed(TrackMsgs[i])
              => /\ cache' = cache
                 /\ \A k \in StripIds : has_track(k)' = has_track(k)
                 /\ lock' = lock]_vars

\* /strip/gain [1] was handled while strip 1 was not cached and other state
\* was: strip 1 is still absent
C19_Witness ==
    /\ lastCall.op = "feedback"
    /\ TrackMsgs[lastCall.args[1]] = [address |-> "/strip/gain", args |-> <<1>>]
    /\ ~has_track(1)
    /\ has_track(MaxStrip)
    /\ transport.frame = 96000

(***************************************************************************)
(* C20: a track record is never implicitly deleted: once get_track(id)     *)
(* returns a record it keeps returning a record for that id after any      *)
(* update, feedback message or facade operation; only clear() (called by   *)
(* the server's stop) removes it.                                          *)
(***************************************************************************)
C20_NoImplicitDelete ==
    [][\A k \in StripIds :
          has_track(k) /\ lastCall'.op \notin {"clear", "stop"}
              => has_track(k)' /\ track_of(k)'.strip_id = k]_vars

\* strip 1 was written by two update_track calls and is still cached after a
\* feedback message for it and while another strip is cached as well
C20_Witness ==
    /\ lastCall.op = "feedback"
    /\ TrackMsgs[lastCall.args[1]].address = "/strip/recenable"
    /\ has_track(1) /\ has_track(MaxStrip)
    /\ track_of(1).muted = TRUE
    /\ track_of(1).gain_db = -6000
    /\ track_of(1).rec_enabled = TRUE

(***************************************************************************)
(* C21: every cache method holds the one reentrant lock for its whole      *)
(* critical section: the critical sections of different threads never      *)
(* overlap, a thread that already holds the lock can enter another cache   *)
(* method (its acquire does not wait), and no send is performed by a       *)
(* thread while it holds the lock.                                         *)
(***************************************************************************)
InSection(t) == LockThr(t).pc \in {"locked", "unlock"}

Holds(t) == lock.owner = t /\ lock.count >= 1

C21_LockDiscipline ==
    /\ lock.id = NewLock.id
    /\ \A t \in Threads : InSection(t) => Holds(t)
    /\ \A t, u \in Threads : InSection(t) /\ InSection(u) => t = u
    /\ \A t \in Threads :
          LockThr(t).pc = "start" /\ Holds(t) => ENABLED LockAcquire(t)
    /\ \A t \in Threads : LockThr(t).pc = "send" => ~Holds(t)

\* thread 1 is inside update_track, entered while it already held the lock,
\* and thread 2 waits at the entry of clear()
C21_Witness ==
    /\ LockThr(1).pc = "locked" /\ LockThr(1).op = "update_track"
    /\ LockThr(1).outer /\ lock.count = 2
    /\ LockThr(2).pc = "start" /\ LockThr(2).op = "clear"
    /\ transport.playing

C23_StrictPhaseThreshold ==
    \A k \in StripIds :
        lastCall.op = "get_phase_correlation" /\ lastCall.args = <<k>> /\ lastCall.success
            => /\ lastCall.correlation = IF meter_cache[k].has_correlation
                                         THEN meter_cache[k].correlation
                                         ELSE DefaultCorrelation
               /\ lastCall.correlation = -50000 => ~lastCall.phase_issue
               /\ lastCall.correlation = -50001 => lastCall.phase_issue
               /\ lastCall.phase_issue <=>
                     (lastCall.correlation # NaN /\ lastCall.correlation < -50000)

\* strip 1 holds the correlation -0.5 and was reported as no phase issue,
\* while strip MaxStrip holds -0.50001
C23_Witness ==
    /\ lastCall.op = "get_phase_correlation" /\ lastCall.args = <<1>>
    /\ lastCall.success /\ lastCall.correlation = -50000 /\ ~lastCall.phase_issue
    /\ meter_cache[MaxStrip].has_correlation
    /\ meter_cache[MaxStrip].correlation = -50001

(***************************************************************************)
(* C24: a read operation that formats a track (get_track_mixer_state,      *)
(* list_tracks) running concurrently with a multi-field update_track on    *)
(* the same track returns field values that all come from one cache        *)
(* state: all from before the update or all from after it.                 *)
(***************************************************************************)
Formatted(rec) == [i \in 1..Len(ReadFields) |-> <<ReadFields[i], rec[ReadFields[i]]>>]

C24_ConsistentRead ==
    Running /\ thr.r.pc = "done"
        => thr.r.got \in {Formatted(prior), Formatted(ApplyKwargs(prior, ReadKw))}

(***************************************************************************)
(* C25: toggle operations built on stale reads double-apply: of two        *)
(* consecutive toggle_track_mute(id) calls that send, with no mute         *)
(* feedback for id processed between them (and the cache not cleared, so   *)
(* that the cached value is unchanged), the second sends the same target   *)
(* value as the first, not the opposite one.                               *)
(***************************************************************************)
C25_StaleToggleRepeats ==
    [][\A k \in StripIds :
          /\ prior # <<>> /\ prior[1].track_id = k
          /\ lastCall'.op = "toggle_track_mute" /\ lastCall'.args = Args(<<k>>, <<>>)
          /\ Len(lastCall'.sent) = 1
          => /\ lastCall'.sent[1] = Msg("/strip/mute", <<k, prior[1].value>>)
             /\ prior[1].value = Flag(~track_of(k).muted)]_vars

\* the cache holds muted for strip 1 since the last feedback; a first toggle
\* sent 0 and so did the second, which has just returned
C25_Witness ==
    /\ lastCall.op = "toggle_track_mute" /\ lastCall.success
    /\ lastCall.sent = <<Msg("/strip/mute", <<1, 0>>)>>
    /\ prior = <<[track_id |-> 1, value |-> 0, n |-> 2]>>
    /\ track_of(1).muted /\ lastFb[1] = 1

(***************************************************************************)
(* C26 as claimed: the kind of failure a write operation reports is        *)
(* determined by a fixed check order: not-connected takes precedence over  *)
(* a range/enum/format error, which takes precedence over                  *)
(* track-not-found; so an out-of-range gain submitted while disconnected   *)
(* yields the not-connected result, and an out-of-range gain for an        *)
(* unknown track yields the range error.                                   *)
(***************************************************************************)
FormatErrors ==
    ValidationErrors \ {"Track not found", "Already recording", "Marker not found"}

ParameterInvalid(a) == a.s[1] \notin {"Gain", "gain", "pan", "mute", "plugin"}

\* the call's input fails a range, enum or format check of the operation,
\* judged on the input alone
FormatInvalid(op, a) ==
    CASE op = "set_track_volume" -> OutsideRange(a.n[2], GainMin, GainMax)
      [] op = "set_track_pan" -> OutsideRange(a.n[2], PanMin, PanMax)
      [] op = "set_automation_mode" ->
            ParameterInvalid(a) \/ a.s[2] \notin {"Write"} \cup AutomationModes
      [] op \in AutomationOps
                \ {"set_automation_mode", "enable_automation_write",
                   "disable_automation_write"} -> ParameterInvalid(a)
      [] op = "set_monitoring_mode" -> a.s[1] \notin {"Input", "input", "disk", "auto"}
      [] op = "set_send_level" -> OutsideRange(a.n[3], GainMin, GainMax) \/ a.n[2] < 0
      [] op = "set_plugin_parameter" -> a.n[2] < 0 \/ a.n[3] < 0
      [] op \in AdvancedMixerOps \ {"set_send_level", "set_plugin_parameter"} ->
            a.n[2] < 0
      [] OTHER -> FALSE

OrderKept(ops) ==
    CallStep /\ lastCall'.op \in ops =>
        LET a == lastCall'.args
        IN  IF ~connected
            THEN lastCall'.error = "Not connected to Ardour"
            ELSE IF FormatInvalid(lastCall'.op, a)
            THEN lastCall'.error \in FormatErrors
            ELSE ~has_track(a.n[1]) => lastCall'.error = "Track not found"

C26_Original == [][OrderKept(StripOps \ {"select_track", "rename_track"})]_vars

(***************************************************************************)
(* C26 as amended: in set_track_volume, set_track_pan, set_automation_mode *)
(* (and the operations that delegate to it at once), set_monitoring_mode   *)
(* and the operations with no range/enum/format check, the failure         *)
(* reported follows the order not-connected, then range/enum/format error, *)
(* then track-not-found.  The send and plugin operations of                *)
(* AdvancedMixerTools test the connection first but look the track up      *)
(* before they test the sign of the send, plugin and parameter ids, so for *)
(* an unknown track and a negative id they report track-not-found (only    *)
(* the level range of set_send_level comes before the track).              *)
(* clear_automation looks the track up before anything else and reports    *)
(* track-not-found for an unknown track also while disconnected.           *)
(***************************************************************************)
TrackFirstOps == AdvancedMixerOps \cup {"clear_automation"}

C26_CheckOrder ==
    [][/\ OrderKept(StripOps \ ({"select_track", "rename_track"} \cup TrackFirstOps))
       /\ CallStep /\ lastCall'.op \in TrackFirstOps =>
             LET a == lastCall'.args
             IN  /\ lastCall'.op # "clear_automation" /\ ~connected
                       => lastCall'.error = "Not connected to Ardour"
                 /\ lastCall'.op = "set_send_level" /\ connected
                    /\ OutsideRange(a.n[3], GainMin, GainMax)
                       => lastCall'.error = "Send level out of range (-193.0 to +6.0)"
                 /\ ~has_track(a.n[1])
                    /\ (connected \/ lastCall'.op = "clear_automation")
                    /\ ~(lastCall'.op = "set_send_level"
                         /\ OutsideRange(a.n[3], GainMin, GainMax))
                       => lastCall'.error = "Track not found"]_vars

\* connected, a gain above the range for a strip that is not cached: the
\* range error is reported, not track-not-found
C26_Witness ==
    /\ lastCall.op = "set_track_volume"
    /\ lastCall.conn
    /\ ~has_track(lastCall.args.n[1])
    /\ lastCall.args.n[2] = GainMax + 1
    /\ lastCall.error = "Volume out of range (-193.0 to +6.0)"

(***************************************************************************)
(* C27: in every reachable cache state, each entry of the tracks mapping   *)
(* is stored under the key equal to the record's own strip_id, after any   *)
(* sequence of update_track calls with any field arguments and any         *)
(* clear() calls.                                                          *)
(***************************************************************************)
C27_KeyIsStripId ==
    \A k \in StripIds : has_track(k) => track_of(k).strip_id = k

\* update_track(1, strip_id=MaxStrip) has just raised; strip 1, written by
\* earlier calls, and strip MaxStrip are cached under their own ids
C27_Witness ==
    /\ lastCall.op = "update_track" /\ lastCall.error = "TypeError"
    /\ lastCall.args = <<1, "strip_id", MaxStrip>>
    /\ has_track(1) /\ track_of(1).strip_id = 1 /\ track_of(1).gain_db = -6000
    /\ has_track(MaxStrip) /\ track_of(MaxStrip).strip_id = MaxStrip

(***************************************************************************)
(* C28: server start runs in a fixed order: the bridge's connect is        *)
(* invoked before the feedback handlers are registered, and the handlers   *)
(* are registered before the tools; if connect raises, the error           *)
(* propagates to the caller and neither handlers nor tools are registered  *)
(* by that call.                                                           *)
(***************************************************************************)
C28_StartOrder ==
    [][\A outcome \in ConnectOutcomes :
          lastCall'.op = "start" /\ lastCall'.args = <<outcome>> /\ srv' # srv =>
             IF outcome = "raises"
             THEN /\ lastCall'.error = "Exception"
                  /\ srv'.steps = <<"connect">>
                  /\ srv'.handlers = srv.handlers /\ srv'.tools = srv.tools
             ELSE /\ lastCall'.error = ""
                  /\ srv'.steps = <<"connect", "register_feedback_handlers",
                                    "_register_tools">>
                  /\ srv'.handlers = StateHandlers /\ srv'.tools]_vars

\* the first start() of a server whose bridge raised on connect: the error
\* reached the caller, and nothing is registered
C28_Witness ==
    /\ lastCall.op = "start" /\ lastCall.error = "Exception"
    /\ srv.steps = <<"connect">>
    /\ srv.handlers = NoSrv.handlers /\ ~srv.tools
    /\ ~connected

(***************************************************************************)
(* C29: server start treats a failed connection as a failure: when the     *)
(* bridge's connect() reports failure by returning false (as the stubbed   *)
(* bridge always does), start() does not go on to register handlers and    *)
(* tools as if connected.                                                  *)
(***************************************************************************)
C29_FailedConnectStops ==
    lastCall.op = "start" /\ lastCall.args = <<"False">>
        => /\ "register_feedback_handlers" \notin {srv.steps[i] : i \in DOMAIN srv.steps}
           /\ "_register_tools" \notin {srv.steps[i] : i \in DOMAIN srv.steps}
           /\ ~lastCall.success

(***************************************************************************)
(* C30: server stop always leaves the cache cleared: also when the         *)
(* bridge's disconnect raises (the error is propagated to the caller), the *)
(* session state afterwards equals a fresh empty instance.                 *)
(***************************************************************************)
C30_StopAlwaysClears ==
    lastCall.op = "stop"
        => /\ \A k \in StripIds : ~has_track(k)
           /\ markers = <<>>
           /\ transport = TransportState
           /\ session = SessionFields

(***************************************************************************)
(* The commands RecordingTools hands to send.  While the result of a call  *)
(* waits in lastCall the transport is the one the call read (feedback is   *)
(* only applied between calls or behind a mute write).                     *)
(***************************************************************************)
RecToggle == Msg("/rec_enable_toggle", <<>>)
TransportPlay == Msg("/transport_play", <<>>)
TransportStop == Msg("/transport_stop", <<>>)

Sent(m) == \E i \in DOMAIN lastCall.sent : lastCall.sent[i] = m

(***************************************************************************)
(* C31 as claimed: start_recording sends /rec_enable_toggle only when the  *)
(* cached transport.recording is false: when the cache says recording is   *)
(* already on, it returns an 'already recording' failure and sends         *)
(* nothing.                                                                *)
(***************************************************************************)
C31_Original ==
    lastCall.op = "start_recording"
        => /\ Sent(RecToggle) => ~transport.recording
           /\ transport.recording
                 => /\ ~lastCall.success
                    /\ lastCall.error = "Already recording"
                    /\ lastCall.sent = <<>>

(***************************************************************************)
(* C31 as amended: start_recording sends /rec_enable_toggle only when the  *)
(* cached transport.recording is false: when the cache says recording is   *)
(* already on it sends nothing and returns a failure, 'Already recording'  *)
(* when the bridge is connected and 'Not connected to Ardour' when it is   *)
(* not (the connection is tested first).                                   *)
(***************************************************************************)
C31_SendsOnlyWhenNotRecording ==
    lastCall.op = "start_recording"
        => /\ Sent(RecToggle) => ~transport.recording
           /\ transport.recording
                 => /\ ~lastCall.success
                    /\ lastCall.sent = <<>>
                    /\ lastCall.error = IF lastCall.conn THEN "Already recording"
                                        ELSE "Not connected to Ardour"

\* connected, the cache says recording: refused as already recording, unsent
C31_Witness ==
    /\ lastCall.op = "start_recording"
    /\ lastCall.conn
    /\ transport.recording
    /\ lastCall.error = "Already recording"
    /\ lastCall.sent = <<>>

(***************************************************************************)
(* C32: start_recording sends /rec_enable_toggle and then /transport_play, *)
(* in that order; if the first send is refused nothing further is sent; if *)
(* the /transport_play send is refused, exactly one compensating           *)
(* /rec_enable_toggle is sent and the call returns failure (three sends in *)
(* total).  Which send was refused is read from the error returned.        *)
(***************************************************************************)
C32_StartRecordingSequence ==
    lastCall.op = "start_recording" /\ lastCall.sent # <<>>
        => /\ lastCall.sent[1] = RecToggle
           /\ CASE lastCall.success ->
                        lastCall.sent = <<RecToggle, TransportPlay>>
                [] lastCall.error = "Failed to enable recording" ->
                        lastCall.sent = <<RecToggle>>
                [] lastCall.error = "Failed to start transport" ->
                        lastCall.sent = <<RecToggle, TransportPlay, RecToggle>>
                [] OTHER -> FALSE

\* the play command was refused: toggle, play, and one compensating toggle
C32_Witness ==
    /\ lastCall.op = "start_recording"
    /\ ~lastCall.success
    /\ lastCall.error = "Failed to start transport"
    /\ lastCall.sent = <<RecToggle, TransportPlay, RecToggle>>

(***************************************************************************)
(* C33 as claimed: stop_recording always sends /transport_stop first, and  *)
(* sends /rec_enable_toggle afterwards if and only if the cached           *)
(* transport.recording was true when the call began and the                *)
(* /transport_stop send was accepted; when the cache says not recording,   *)
(* /transport_stop is the only command sent.                               *)
(***************************************************************************)
StopSequence ==
    /\ lastCall.sent # <<>> /\ lastCall.sent[1] = TransportStop
    /\ Len(lastCall.sent) <= 2
    /\ Len(lastCall.sent) = 2
           <=> transport.recording /\ lastCall.error # "Failed to stop transport"
    /\ Len(lastCall.sent) = 2 => lastCall.sent[2] = RecToggle
    /\ ~transport.recording => lastCall.sent = <<TransportStop>>

C33_Original ==
    lastCall.op = "stop_recording" => StopSequence

(***************************************************************************)
(* C33 as amended: when the bridge is connected, stop_recording sends      *)
(* /transport_stop first, and sends /rec_enable_toggle afterwards if and   *)
(* only if the cached transport.recording was true when the call began and *)
(* the /transport_stop send was accepted; when the cache says not          *)
(* recording, /transport_stop is the only command sent.  When the bridge   *)
(* is not connected it sends nothing and returns the not-connected error.  *)
(***************************************************************************)
C33_StopRecordingSequence ==
    lastCall.op = "stop_recording"
        => IF lastCall.conn THEN StopSequence
           ELSE lastCall.sent = <<>> /\ lastCall.error = "Not connected to Ardour"

\* connected and recording: the stop is accepted and the toggle follows
C33_Witness ==
    /\ lastCall.op = "stop_recording"
    /\ lastCall.conn
    /\ transport.recording
    /\ lastCall.success
    /\ lastCall.sent = <<TransportStop, RecToggle>>

(***************************************************************************)
(* C34: a multi-command operation that returns failure has left no partial *)
(* effect: every command it had already sent before the failing step has   *)
(* been compensated (as start_recording does for its record-enable         *)
(* toggle), for set_punch_range, create_marker with a position,            *)
(* rename_marker and set_monitoring_mode alike.  A failed call that made   *)
(* more than one send has, after its first command, a command that undoes  *)
(* it: the same switch or position set again, or the removed marker added  *)
(* back.                                                                   *)
(***************************************************************************)
MultiCommandOps ==
    {"start_recording", "set_punch_range", "create_marker", "rename_marker",
     "set_monitoring_mode"}

Compensation(address) ==
    IF address = "/remove_marker" THEN "/add_marker" ELSE address

C34_NoPartialEffect ==
    lastCall.op \in MultiCommandOps /\ ~lastCall.success /\ Len(lastCall.sent) >= 2
        => \E j \in 2..Len(lastCall.sent) :
              lastCall.sent[j].address = Compensation(lastCall.sent[1].address)

(***************************************************************************)
(* C35 as claimed: enable_loop sends no command and returns success when   *)
(* the cached loop_enabled is already true, and otherwise sends exactly    *)
(* one /loop_toggle; disable_loop is symmetric (no command when the cached *)
(* loop_enabled is already false, otherwise exactly one /loop_toggle).     *)
(***************************************************************************)
LoopToggle == Msg("/loop_toggle", <<>>)

LoopIdempotent ==
    IF transport.loop_enabled = (lastCall.op = "enable_loop")
    THEN lastCall.sent = <<>> /\ lastCall.success
    ELSE lastCall.sent = <<LoopToggle>>

C35_Original ==
    lastCall.op \in {"enable_loop", "disable_loop"} => LoopIdempotent

(***************************************************************************)
(* C35 as amended: when the bridge is connected, enable_loop sends no      *)
(* command and returns success when the cached loop_enabled is already     *)
(* true, and otherwise sends exactly one /loop_toggle; disable_loop is     *)
(* symmetric.  When the bridge is not connected both send nothing and      *)
(* return the not-connected error, whatever the cache says.                *)
(***************************************************************************)
C35_LoopIdempotent ==
    lastCall.op \in {"enable_loop", "disable_loop"}
        => IF lastCall.conn THEN LoopIdempotent
           ELSE /\ lastCall.sent = <<>>
                /\ ~lastCall.success
                /\ lastCall.error = "Not connected to Ardour"

\* connected, the cache says looping: enable_loop succeeds without a send
C35_Witness ==
    /\ lastCall.op = "enable_loop"
    /\ lastCall.conn
    /\ transport.loop_enabled
    /\ lastCall.success
    /\ lastCall.sent = <<>>

(***************************************************************************)
(* C36: rename_marker affects only the first marker matching the old name: *)
(* if no cached marker has that name it fails without sending anything;    *)
(* otherwise it sends the removal of the old name, then locate to the      *)
(* first match's cached position, then the creation of the new name, in    *)
(* that order; and if creating the new marker fails it attempts to         *)
(* re-create the old marker at that position and returns failure.  The     *)
(* sends of a call stop at the first one refused, and the attempt to       *)
(* re-create begins with the locate to that position.                      *)
(***************************************************************************)
FirstMatch(name) ==
    LET hits == {i \in DOMAIN markers : markers[i][1] = name}
    IN  IF hits = {} THEN 0 ELSE CHOOSE i \in hits : \A j \in hits : i <= j

C36_RenameFirstMatch ==
    lastCall.op = "rename_marker"
        => LET old    == lastCall.args.s[1]
               new    == lastCall.args.s[2]
               first  == FirstMatch(old)
               rm     == Msg("/remove_marker", <<old>>)
               loc    == Msg("/locate", <<markers[first][2], 1>>)
               addNew == Msg("/add_marker", <<new>>)
               addOld == Msg("/add_marker", <<old>>)
           IN  /\ first = 0 => ~lastCall.success /\ lastCall.sent = <<>>
               /\ lastCall.sent # <<>>
                     => /\ first # 0
                        /\ CASE lastCall.success ->
                                    lastCall.sent = <<rm, loc, addNew>>
                             [] lastCall.error = "Failed to delete old marker" ->
                                    lastCall.sent = <<rm>>
                             [] lastCall.error = "Failed to create new marker" ->
                                    lastCall.sent \in
                                        { <<rm, loc, loc>>, <<rm, loc, loc, addOld>>,
                                          <<rm, loc, addNew, loc>>,
                                          <<rm, loc, addNew, loc, addOld>> }
                             [] OTHER -> FALSE

\* two markers named Verse; the new marker cannot be created: the old name
\* is removed, and re-created at the position of the first Verse
C36_Witness ==
    /\ lastCall.op = "rename_marker"
    /\ markers = << <<"Verse", 96000>>, <<"Verse", 48000>> >>
    /\ ~lastCall.success
    /\ lastCall.sent = << Msg("/remove_marker", <<"Verse">>), Msg("/locate", <<96000, 1>>),
                          Msg("/add_marker", <<"Chorus">>), Msg("/locate", <<96000, 1>>),
                          Msg("/add_marker", <<"Verse">>) >>

(***************************************************************************)
(* C37: create_marker with an explicit position sends /locate to that      *)
(* position before /add_marker, and never sends /add_marker when the       *)
(* /locate send was refused; without a position it sends only /add_marker. *)
(***************************************************************************)
C37_LocateBeforeAdd ==
    lastCall.op = "create_marker" /\ lastCall.sent # <<>>
        => LET position == lastCall.args.n[1]
               locate   == Msg("/locate", <<position, 1>>)
               add      == Msg("/add_marker", <<lastCall.args.s[1]>>)
           IN  IF position = NoPosition
               THEN lastCall.sent = <<add>>
               ELSE /\ lastCall.sent \in {<<locate>>, <<locate, add>>}
                    /\ lastCall.error = "Failed to locate to frame"
                           => lastCall.sent = <<locate>>
                    /\ lastCall.sent = <<locate>>
                           => ~lastCall.success /\ lastCall.error = "Failed to locate to frame"

\* a position is given and the locate is refused: no /add_marker follows
C37_Witness ==
    /\ lastCall.op = "create_marker"
    /\ lastCall.args.n[1] = 96000
    /\ lastCall.error = "Failed to locate to frame"
    /\ lastCall.sent = <<Msg("/locate", <<96000, 1>>)>>

(***************************************************************************)
(* C38: mute_all_tracks attempts the mute command once for every track in  *)
(* the snapshot taken at the start, continuing after individual failures;  *)
(* in its result success is true exactly when no track failed, and         *)
(* tracks_muted plus the number of failed tracks equals the number of      *)
(* tracks in the snapshot (with zero tracks it succeeds and sends          *)
(* nothing).  The snapshot is taken once the connection test has passed.   *)
(***************************************************************************)
C38_MuteAllAccounting ==
    lastCall.op = "mute_all_tracks" /\ lastCall.conn
        => /\ lastCall.total_tracks = CountTracks
           /\ Len(lastCall.sent) = lastCall.total_tracks
           /\ \A i \in DOMAIN lastCall.sent :
                 lastCall.sent[i] = Msg("/strip/mute", <<TrackIds[i], 1>>)
           /\ lastCall.success <=> lastCall.failed_tracks = <<>>
           /\ lastCall.tracks_muted + Len(lastCall.failed_tracks) = lastCall.total_tracks
           /\ lastCall.total_tracks = 0 => lastCall.success /\ lastCall.sent = <<>>

\* two tracks, the command for the first is refused: the second is still
\* attempted, one track is muted and one has failed
C38_Witness ==
    /\ lastCall.op = "mute_all_tracks"
    /\ lastCall.conn
    /\ lastCall.total_tracks = 2
    /\ lastCall.failed_tracks = <<1>>
    /\ lastCall.tracks_muted = 1
    /\ ~lastCall.success
    /\ Len(lastCall.sent) = 2

(***************************************************************************)
(* C39: range validators are inclusive at both bounds: when connected and  *)
(* the track exists, gain -193.0 and 6.0, pan -1.0 and 1.0, and tempo 20   *)
(* and 300 are each accepted and sent unchanged, and a value is sent only  *)
(* if it lies within its closed range.                                     *)
(***************************************************************************)
SentAtBound(op, address, lo, hi) ==
    lastCall.op = op /\ lastCall.conn
        => IF op = "set_tempo"
           THEN lastCall.args.n[1] \in {lo, hi}
                    => lastCall.sent = <<Msg(address, <<lastCall.args.n[1]>>)>>
           ELSE has_track(lastCall.args.n[1]) /\ lastCall.args.n[2] \in {lo, hi}
                    => lastCall.sent = <<Msg(address, lastCall.args.n)>>

SentInRange(address, lo, hi) ==
    \A i \in DOMAIN lastCall.sent :
        lastCall.sent[i].address = address
            => LET v == lastCall.sent[i].args[Len(lastCall.sent[i].args)]
               IN  /\ ~OutsideRange(v, lo, hi)
                   /\ v = lastCall.args.n[Len(lastCall.args.n)]

C39_InclusiveRanges ==
    lastCall.op \in WriteOps
        => /\ SentAtBound("set_track_volume", "/strip/gain", GainMin, GainMax)
           /\ SentAtBound("set_track_pan", "/strip/pan_stereo_position", PanMin, PanMax)
           /\ SentAtBound("set_tempo", "/set_tempo", TempoMin, TempoMax)
           /\ SentInRange("/strip/gain", GainMin, GainMax)
           /\ SentInRange("/strip/pan_stereo_position", PanMin, PanMax)
           /\ SentInRange("/set_tempo", TempoMin, TempoMax)

\* connected, tempo 20: accepted by the validator and sent as given
C39_Witness ==
    /\ lastCall.op = "set_tempo"
    /\ lastCall.conn
    /\ lastCall.args.n[1] = TempoMin
    /\ lastCall.success
    /\ lastCall.sent = <<Msg("/set_tempo", <<TempoMin>>)>>

(***************************************************************************)
(* C40: feedback for different fields of the same track commutes:          *)
(* applying name, gain and mute updates for one strip_id in any order,     *)
(* starting from the same cache state, yields the same final track record  *)
(* (including when the first of them creates the record): whatever the     *)
(* order, the record is the one the run began with (the default record if  *)
(* there was none) with the three fields set.                              *)
(***************************************************************************)
C40_FeedbackCommutes ==
    Running /\ thr.done = 3
        => LET base == IF prior = NoObj THEN TrackState(thr.strip) ELSE prior
           IN  /\ has_track(thr.strip)
               /\ track_of(thr.strip) =
                      [base EXCEPT !.name = "Track", !.gain_db = -6000,
                                   !.muted = (thr.mute # 0)]

\* the track was not cached: the mute message created the record, the name
\* came last
C40_Witness ==
    /\ Running /\ thr.done = 3
    /\ thr.order = <<3, 2, 1>>
    /\ prior = NoObj
    /\ track_of(thr.strip).name = "Track"
    /\ track_of(thr.strip).gain_db = -6000
    /\ track_of(thr.strip).muted

=============================================================================
